---- MODULE Spec2Model ----
(***************************************************************************)
(* NumNom content script: the scroll-and-collect download                  *)
(* (src/content/download.ts), the message listener that starts and cancels *)
(* it (src/content/index.ts), and the table classification and             *)
(* standardization code it calls (src/content/detection.ts,                *)
(* src/shared/utils.ts).                                                   *)
(*                                                                         *)
(* A JavaScript string is a sequence of one-character strings, so that     *)
(* join, trim, tokenize and the matchers are computed on characters.       *)
(* JavaScript runs one handler at a time: an action is everything a        *)
(* handler does between two suspensions (a message delivery, or the        *)
(* continuation of an awaited timer).                                      *)
(***************************************************************************)
EXTENDS Integers, Sequences, FiniteSets, TLC

(* ------------------------------------------------------------------ *)
(* Program constants (src/shared/constants.ts)                         *)
(* ------------------------------------------------------------------ *)
SCROLL_PROGRESS_CAP == 95
BOTTOM_THRESHOLD_PX == 10
MAX_SCROLL_ATTEMPTS == 200
MAX_NO_NEW_ROWS_ATTEMPTS == 5
\* "first 5 rows" of hasPriceColumns and findOHLCHeaderRow
HEADER_SEARCH_ROWS == 5

(* ------------------------------------------------------------------ *)
(* Bounds of the model                                                 *)
(* ------------------------------------------------------------------ *)
\* startFullDownload messages the popup sends in the overlapping scenario
MaxRuns == 2
\* rows a lazily loading page can render in the long scenario
MaxFresh == 45
\* columns of a header row the column mapping is applied to
MaxColumns == 3
\* rows above the header row of a table that is classified
MaxTitleRows == 5
\* data rows of a table that is classified
MaxDataRows == 1
\* data rows of a grid that is standardized
MaxGridRows == 2
\* characters of a header string that is tokenized
MaxHeaderLength == 5
\* the day and month fields of the date strings parseDateToISO is applied to: 0 to
MaxDateField == 32

(* ------------------------------------------------------------------ *)
(* Characters and strings                                              *)
(* ------------------------------------------------------------------ *)
LowerSeq ==
  <<"a","b","c","d","e","f","g","h","i","j","k","l","m",
    "n","o","p","q","r","s","t","u","v","w","x","y","z">>
UpperSeq ==
  <<"A","B","C","D","E","F","G","H","I","J","K","L","M",
    "N","O","P","Q","R","S","T","U","V","W","X","Y","Z">>
LowerChars == {LowerSeq[i] : i \in 1..26}
UpperChars == {UpperSeq[i] : i \in 1..26}
\* U+2212 MINUS SIGN and U+00B7 MIDDLE DOT, each one character
MINUS_SIGN == "U+2212"
MIDDLE_DOT == "U+00B7"
\* what the regular expression \s and String.prototype.trim treat as blank
Whitespace == {" ", "\t", "\n"}

Min(a, b) == IF a <= b THEN a ELSE b
Max(a, b) == IF a >= b THEN a ELSE b

\* String.prototype.toLowerCase, one character
toLowerChar(c) ==
  IF c \in UpperChars
    THEN LowerSeq[CHOOSE i \in 1..26 : UpperSeq[i] = c]
    ELSE c
toLowerCase(s) == [i \in 1..Len(s) |-> toLowerChar(s[i])]

RECURSIVE trimStart(_)
trimStart(s) ==
  IF s # <<>> /\ s[1] \in Whitespace THEN trimStart(Tail(s)) ELSE s
RECURSIVE trimEnd(_)
trimEnd(s) ==
  IF s # <<>> /\ s[Len(s)] \in Whitespace
    THEN trimEnd(SubSeq(s, 1, Len(s) - 1))
    ELSE s
\* String.prototype.trim
trim(s) == trimEnd(trimStart(s))

\* Decimal digits of a natural number, as a string
DigitSeq == <<"0","1","2","3","4","5","6","7","8","9">>
RECURSIVE numberToString(_)
numberToString(n) ==
  IF n < 10 THEN <<DigitSeq[n + 1]>>
  ELSE numberToString(n \div 10) \o <<DigitSeq[(n % 10) + 1]>>

(* ------------------------------------------------------------------ *)
(* tokenize and the column matchers (src/shared/utils.ts)              *)
(* ------------------------------------------------------------------ *)
\* .replace(/([a-z])([A-Z])/g, '$1 $2')
RECURSIVE camelCaseSplit(_)
camelCaseSplit(s) ==
  IF Len(s) < 2 THEN s
  ELSE IF s[1] \in LowerChars /\ s[2] \in UpperChars
    THEN <<s[1], " ">> \o camelCaseSplit(Tail(s))
    ELSE <<s[1]>> \o camelCaseSplit(Tail(s))

\* a replacement that leaves a hyphen where an underscore was
replaceHyphensByBlanksAndUnderscoresByHyphens(s) ==
  [i \in 1..Len(s) |-> IF s[i] = "-" THEN " " ELSE IF s[i] = "_" THEN "-" ELSE s[i]]
\* .replace(/[-_]/g, ' ')
replaceHyphens(s) ==
  [i \in 1..Len(s) |-> IF s[i] \in {"-", "_"} THEN " " ELSE s[i]]

\* .split(/\s+/): the pieces between maximal runs of whitespace, the empty
\* pieces at either end included
RECURSIVE splitWhitespace(_, _)
splitWhitespace(s, piece) ==
  IF s = <<>> THEN <<piece>>
  ELSE IF s[1] \in Whitespace
    THEN <<piece>> \o splitWhitespace(trimStart(s), <<>>)
    ELSE splitWhitespace(Tail(s), Append(piece, s[1]))

tokenize(str) ==
  LET pieces == splitWhitespace(replaceHyphens(toLowerCase(camelCaseSplit(str))), <<>>)
  IN  {pieces[i] : i \in {j \in 1..Len(pieces) : pieces[j] # <<>>}}

\* the elements of the Set tokenize returns, in the order a Set keeps: that of
\* their first occurrence
RECURSIVE firstOccurrences(_, _)
firstOccurrences(pieces, kept) ==
  IF pieces = <<>> THEN kept
  ELSE IF pieces[1] = <<>> \/ \E i \in 1..Len(kept) : kept[i] = pieces[1]
    THEN firstOccurrences(Tail(pieces), kept)
    ELSE firstOccurrences(Tail(pieces), Append(kept, pieces[1]))
tokenizeInOrder(str) ==
  firstOccurrences(
    splitWhitespace(replaceHyphens(toLowerCase(camelCaseSplit(str))), <<>>), <<>>)
\* [...tokens].join(separator)
RECURSIVE join(_, _)
join(tokens, separator) ==
  IF tokens = <<>> THEN <<>>
  ELSE IF Len(tokens) = 1 THEN tokens[1]
  ELSE tokens[1] \o separator \o join(Tail(tokens), separator)

isExDateColumn(name) ==
  \E tokens \in {tokenize(name)} :
      <<"e","x">> \in tokens \/ <<"x","d">> \in tokens
isAmountColumn(name) ==
  \E tokens \in {tokenize(name)} :
      \/ <<"a","m","o","u","n","t">> \in tokens
      \/ <<"a","m","t">> \in tokens
      \/ <<"d","i","v","i","d","e","n","d">> \in tokens
isIndicatorColumn(name) ==
  \E tokens \in {tokenize(name)} :
      \/ <<"i","n","d","i","c","a","t","o","r">> \in tokens
      \/ /\ <<"t","y","p","e">> \in tokens
         /\ \/ <<"d","i","v">> \in tokens
            \/ <<"d","i","v","i","d","e","n","d">> \in tokens
isAnnouncementDateColumn(name) ==
  \E tokens \in {tokenize(name)} :
      \/ <<"a","n","n","o","u","n","c","e","d">> \in tokens
      \/ <<"a","n","n","o","u","n","c","e","m","e","n","t">> \in tokens
      \/ <<"d","e","c","l","a","r","e","d">> \in tokens
      \/ <<"d","e","c","l","a","r","a","t","i","o","n">> \in tokens
isPaymentDateColumn(name) ==
  \E tokens \in {tokenize(name)} :
      \/ <<"p","a","y","m","e","n","t">> \in tokens
      \/ <<"p","a","y">> \in tokens
      \/ <<"p","a","y","a","b","l","e">> \in tokens
      \/ <<"p","a","i","d">> \in tokens
isDescriptionColumn(name) ==
  \E tokens \in {tokenize(name)} :
      \/ <<"s","u","b","j","e","c","t">> \in tokens
      \/ <<"d","e","s","c","r","i","p","t","i","o","n">> \in tokens
isOpenColumn(name) == <<"o","p","e","n">> \in tokenize(name)
isCloseColumn(name) == <<"c","l","o","s","e">> \in tokenize(name)
isHighColumn(name) == <<"h","i","g","h">> \in tokenize(name)
isLowColumn(name) == <<"l","o","w">> \in tokenize(name)
isDateColumn(name) == <<"d","a","t","e">> \in tokenize(name)

\* normalizeTextForExcel: U+2212 becomes "-", U+00B7 becomes " "
normalizeTextForExcel(text) ==
  [i \in 1..Len(text) |->
     IF text[i] = MINUS_SIGN THEN "-"
     ELSE IF text[i] = MIDDLE_DOT THEN " "
     ELSE text[i]]

\* hashRow: cells.join('|')
RECURSIVE hashRow(_)
hashRow(cells) ==
  IF cells = <<>> THEN <<>>
  ELSE IF Len(cells) = 1 THEN cells[1]
  ELSE cells[1] \o <<"|">> \o hashRow(Tail(cells))

(* ------------------------------------------------------------------ *)
(* parseDateToISO (src/shared/utils.ts). A regular expression of the    *)
(* code is a sequence of pieces, each a character class repeated        *)
(* min to max times; the classes of neighbouring pieces are disjoint,   *)
(* so a piece matches the longest run of its class.                     *)
(* ------------------------------------------------------------------ *)
Digits == {DigitSeq[i] : i \in 1..10}
\* [a-z] under the flag i
Letters == LowerChars \cup UpperChars
digitValue(c) == (CHOOSE i \in 1..10 : DigitSeq[i] = c) - 1
\* unary + applied to a string of digits
RECURSIVE toNumber(_)
toNumber(digits) ==
  IF digits = <<>> THEN 0
  ELSE 10 * toNumber(SubSeq(digits, 1, Len(digits) - 1)) + digitValue(digits[Len(digits)])

\* the length of the longest prefix of s made of characters of class
RECURSIVE span(_, _)
span(s, class) ==
  IF s # <<>> /\ s[1] \in class THEN 1 + span(Tail(s), class) ELSE 0

Piece(class, min, max) == [class |-> class, min |-> min, max |-> max]
NoMatch == [matched |-> FALSE, groups |-> <<>>]
\* String.prototype.match with an anchored pattern: the text of each piece
RECURSIVE match(_, _, _)
match(s, pattern, groups) ==
  IF pattern = <<>>
    THEN IF s = <<>> THEN [matched |-> TRUE, groups |-> groups] ELSE NoMatch
  ELSE IF span(s, pattern[1].class) < pattern[1].min
    THEN NoMatch
  ELSE IF span(s, pattern[1].class) > pattern[1].max
    THEN match(SubSeq(s, pattern[1].max + 1, Len(s)), Tail(pattern),
               Append(groups, SubSeq(s, 1, pattern[1].max)))
  ELSE match(SubSeq(s, span(s, pattern[1].class) + 1, Len(s)), Tail(pattern),
             Append(groups, SubSeq(s, 1, span(s, pattern[1].class))))

\* a repetition without upper limit
Unbounded == 1000
\* /^(\d{4})[-/](\d{1,2})[-/](\d{1,2})$/
ISO_PATTERN ==
  << Piece(Digits, 4, 4), Piece({"-", "/"}, 1, 1), Piece(Digits, 1, 2),
     Piece({"-", "/"}, 1, 1), Piece(Digits, 1, 2) >>
\* /^([a-z]+)\s+(\d{1,2}),?\s+(\d{4})$/i
TEXT_PATTERN_1 ==
  << Piece(Letters, 1, Unbounded), Piece(Whitespace, 1, Unbounded), Piece(Digits, 1, 2),
     Piece({","}, 0, 1), Piece(Whitespace, 1, Unbounded), Piece(Digits, 4, 4) >>
\* /^(\d{1,2})\s+([a-z]+)\s+(\d{4})$/i
TEXT_PATTERN_2 ==
  << Piece(Digits, 1, 2), Piece(Whitespace, 1, Unbounded), Piece(Letters, 1, Unbounded),
     Piece(Whitespace, 1, Unbounded), Piece(Digits, 4, 4) >>
\* /^(?:[a-z]{3}\s+)?(\d{1,2})\s+([a-z]+)\s+'(\d{2})$/i without the optional group
TEXT_PATTERN_3 ==
  << Piece(Digits, 1, 2), Piece(Whitespace, 1, Unbounded), Piece(Letters, 1, Unbounded),
     Piece(Whitespace, 1, Unbounded), Piece({"'"}, 1, 1), Piece(Digits, 2, 2) >>
\* the optional group of that pattern: [a-z]{3}\s+
WEEKDAY_PREFIX == << Piece(Letters, 3, 3), Piece(Whitespace, 1, Unbounded) >>
\* /^([a-z]+)\s+(\d{1,2}),?\s+'(\d{2})$/i
TEXT_PATTERN_4 ==
  << Piece(Letters, 1, Unbounded), Piece(Whitespace, 1, Unbounded), Piece(Digits, 1, 2),
     Piece({","}, 0, 1), Piece(Whitespace, 1, Unbounded), Piece({"'"}, 1, 1),
     Piece(Digits, 2, 2) >>
\* /^(\d{1,2})[/.](\d{1,2})[/.](\d{4})$/
NUMERIC_PATTERN ==
  << Piece(Digits, 1, 2), Piece({"/", "."}, 1, 1), Piece(Digits, 1, 2),
     Piece({"/", "."}, 1, 1), Piece(Digits, 4, 4) >>

\* MONTH_NAMES[name], 0 for a name that is not a key
MONTH_NAMES(name) ==
  CASE name = <<"j","a","n">> -> 1
    [] name = <<"j","a","n","u","a","r","y">> -> 1
    [] name = <<"f","e","b">> -> 2
    [] name = <<"f","e","b","r","u","a","r","y">> -> 2
    [] name = <<"m","a","r">> -> 3
    [] name = <<"m","a","r","c","h">> -> 3
    [] name = <<"a","p","r">> -> 4
    [] name = <<"a","p","r","i","l">> -> 4
    [] name = <<"m","a","y">> -> 5
    [] name = <<"j","u","n">> -> 6
    [] name = <<"j","u","n","e">> -> 6
    [] name = <<"j","u","l">> -> 7
    [] name = <<"j","u","l","y">> -> 7
    [] name = <<"a","u","g">> -> 8
    [] name = <<"a","u","g","u","s","t">> -> 8
    [] name = <<"s","e","p">> -> 9
    [] name = <<"s","e","p","t">> -> 9
    [] name = <<"s","e","p","t","e","m","b","e","r">> -> 9
    [] name = <<"o","c","t">> -> 10
    [] name = <<"o","c","t","o","b","e","r">> -> 10
    [] name = <<"n","o","v">> -> 11
    [] name = <<"n","o","v","e","m","b","e","r">> -> 11
    [] name = <<"d","e","c">> -> 12
    [] name = <<"d","e","c","e","m","b","e","r">> -> 12
    [] OTHER -> 0

INVALID_DATE == <<"I","N","V","A","L","I","D","_","D","A","T","E">>
\* null
NoDate == [year |-> 0, month |-> 0, date |-> 0]

isLeapYear(year) == (year % 4 = 0 /\ year % 100 # 0) \/ year % 400 = 0
daysInMonth(year, monthIndex) ==
  IF monthIndex = 1 THEN (IF isLeapYear(year) THEN 29 ELSE 28)
  ELSE IF monthIndex \in {3, 5, 8, 10} THEN 30
  ELSE 31
\* new Date(year, monthIndex, day) for monthIndex in 0..11 and day in 1..31: a day
\* past the end of the month becomes a day of the next month
newDate(year, monthIndex, day) ==
  IF day <= daysInMonth(year, monthIndex)
    THEN [year |-> year, month |-> monthIndex, date |-> day]
    ELSE [year |-> year, month |-> monthIndex + 1, date |-> day - daysInMonth(year, monthIndex)]

\* a createValidDate that does not compare the date with its arguments
createValidDateUnchecked(year, month, day) ==
  IF year < 1900 \/ year > 2100 THEN NoDate
  ELSE IF month < 1 \/ month > 12 THEN NoDate
  ELSE IF day < 1 \/ day > 31 THEN NoDate
  ELSE newDate(year, month - 1, day)
\* createValidDate: the Date, or NoDate for null
createValidDate(year, month, day) ==
  IF year < 1900 \/ year > 2100 THEN NoDate
  ELSE IF month < 1 \/ month > 12 THEN NoDate
  ELSE IF day < 1 \/ day > 31 THEN NoDate
  ELSE IF newDate(year, month - 1, day).month # month - 1
          \/ newDate(year, month - 1, day).date # day
    THEN NoDate
  ELSE newDate(year, month - 1, day)

\* String(n).padStart(2, '0')
padStart2(n) == IF n < 10 THEN <<"0">> \o numberToString(n) ELSE numberToString(n)
\* formatToISO
formatToISO(date) ==
  numberToString(date.year) \o <<"-">> \o padStart2(date.month + 1) \o <<"-">>
    \o padStart2(date.date)
\* if (date) return formatToISO(date): the string, or <<>> to go on
formatted(date) == IF date = NoDate THEN <<>> ELSE formatToISO(date)

twoDigitYearToFour(twoDigitYear) ==
  IF twoDigitYear < 50 THEN 2000 + twoDigitYear ELSE 1900 + twoDigitYear

\* the attempts of parseDateToISO, each on the result m of its match: the
\* formatted date, or <<>> when the attempt does not return
isoAttempt(m) ==
  IF m.matched
    THEN formatted(createValidDate(toNumber(m.groups[1]), toNumber(m.groups[3]),
                                   toNumber(m.groups[5])))
    ELSE <<>>
\* month name at group nameAt, day at group dayAt, four-digit year at group yearAt
textAttempt(m, nameAt, dayAt, yearAt) ==
  IF m.matched /\ MONTH_NAMES(toLowerCase(m.groups[nameAt])) # 0
    THEN formatted(createValidDate(toNumber(m.groups[yearAt]),
                                   MONTH_NAMES(toLowerCase(m.groups[nameAt])),
                                   toNumber(m.groups[dayAt])))
    ELSE <<>>
\* the same with a two-digit year
shortYearAttempt(m, nameAt, dayAt, yearAt) ==
  IF m.matched /\ MONTH_NAMES(toLowerCase(m.groups[nameAt])) # 0
    THEN formatted(createValidDate(twoDigitYearToFour(toNumber(m.groups[yearAt])),
                                   MONTH_NAMES(toLowerCase(m.groups[nameAt])),
                                   toNumber(m.groups[dayAt])))
    ELSE <<>>
\* a reading of f / s / y that is always month first
numericDateMonthFirst(f, s, y) == formatted(createValidDate(y, f, s))
\* f / s / y: day first when f > 12 and s <= 12, and month first when that is
\* not the case or gave no date
numericDate(f, s, y) ==
  IF f > 12 /\ s <= 12 /\ createValidDate(y, s, f) # NoDate
    THEN formatToISO(createValidDate(y, s, f))
    ELSE formatted(createValidDate(y, f, s))
numericAttempt(m) ==
  IF m.matched
    THEN numericDate(toNumber(m.groups[1]), toNumber(m.groups[3]), toNumber(m.groups[5]))
    ELSE <<>>

\* the result of the first attempt that returns, INVALID_DATE when none does
RECURSIVE firstReturn(_)
firstReturn(attempts) ==
  IF attempts = <<>> THEN INVALID_DATE
  ELSE IF attempts[1] # <<>> THEN attempts[1]
  ELSE firstReturn(Tail(attempts))

\* parseDateToISO after const trimmed = dateStr.trim()
parseTrimmed(trimmed) ==
  IF trimmed = <<>> \/ trimmed = <<"-">> THEN <<>>
  ELSE firstReturn(<<
         isoAttempt(match(trimmed, ISO_PATTERN, <<>>)),
         textAttempt(match(trimmed, TEXT_PATTERN_1, <<>>), 1, 3, 6),
         textAttempt(match(trimmed, TEXT_PATTERN_2, <<>>), 3, 1, 5),
         shortYearAttempt(match(trimmed, TEXT_PATTERN_3, <<>>), 3, 1, 6),
         shortYearAttempt(match(trimmed, WEEKDAY_PREFIX \o TEXT_PATTERN_3, <<>>), 5, 3, 8),
         shortYearAttempt(match(trimmed, TEXT_PATTERN_4, <<>>), 1, 3, 7),
         numericAttempt(match(trimmed, NUMERIC_PATTERN, <<>>)) >>)

parseDateToISO(dateStr) == parseTrimmed(trim(dateStr))

(* ------------------------------------------------------------------ *)
(* The table element: its tr rows in document order, each in the thead *)
(* or in the tbody, each with the text of its th/td cells.             *)
(* ------------------------------------------------------------------ *)
Tr(section, cells) == [section |-> section, cells |-> cells]

\* getColumnNamesFromRow: cell.textContent?.trim() || ''
getColumnNamesFromRow(row) == [j \in 1..Len(row.cells) |-> trim(row.cells[j])]

\* a check that does not ask for a low column
hasOpenCloseHigh(columnNames) ==
  /\ \E j \in 1..Len(columnNames) : isOpenColumn(columnNames[j])
  /\ \E j \in 1..Len(columnNames) : isCloseColumn(columnNames[j])
  /\ \E j \in 1..Len(columnNames) : isHighColumn(columnNames[j])
hasAllPriceColumns(columnNames) ==
  /\ \E j \in 1..Len(columnNames) : isOpenColumn(columnNames[j])
  /\ \E j \in 1..Len(columnNames) : isCloseColumn(columnNames[j])
  /\ \E j \in 1..Len(columnNames) : isHighColumn(columnNames[j])
  /\ \E j \in 1..Len(columnNames) : isLowColumn(columnNames[j])

\* hasPriceColumns: a thead row, or one of the first five rows, has all four
hasPriceColumns(trs) ==
  \/ \E i \in 1..Len(trs) :
       trs[i].section = "thead" /\ hasAllPriceColumns(getColumnNamesFromRow(trs[i]))
  \/ \E i \in 1..Min(HEADER_SEARCH_ROWS, Len(trs)) :
       hasAllPriceColumns(getColumnNamesFromRow(trs[i]))

\* tr:first-child: the first row of its section
isFirstChild(trs, i) == i = 1 \/ trs[i - 1].section # trs[i].section

\* hasDividendColumns: 'thead th, thead td, tr:first-child th, tr:first-child td'
hasDividendColumns(trs) ==
  LET headerRows == {i \in 1..Len(trs) : trs[i].section = "thead" \/ isFirstChild(trs, i)}
  IN  /\ \E i \in headerRows : \E j \in 1..Len(trs[i].cells) :
           isExDateColumn(getColumnNamesFromRow(trs[i])[j])
      /\ \E i \in headerRows : \E j \in 1..Len(trs[i].cells) :
           isAmountColumn(getColumnNamesFromRow(trs[i])[j])

\* a classification that looks for dividend columns first
getTableTypeDividendFirst(trs) ==
  IF hasDividendColumns(trs) THEN "dividend"
  ELSE IF hasPriceColumns(trs) THEN "price"
  ELSE "null"
getTableType(trs) ==
  IF hasPriceColumns(trs) THEN "price"
  ELSE IF hasDividendColumns(trs) THEN "dividend"
  ELSE "null"

\* tableToArray: every tr, every cell trimmed and then normalized
tableToArray(trs) ==
  [i \in 1..Len(trs) |->
     [j \in 1..Len(trs[i].cells) |-> normalizeTextForExcel(trim(trs[i].cells[j]))]]

(* ------------------------------------------------------------------ *)
(* Column mapping and the row filters of the two standardizers         *)
(* (src/content/detection.ts). Column indexes are the code's, from 0;  *)
(* UNDEFINED stands for a mapping entry that was never assigned.        *)
(* ------------------------------------------------------------------ *)
UNDEFINED == 0 - 1
\* row[i] of the code, for an index that exists
at(row, i) == row[i + 1]
has(row, i) == i >= 0 /\ i < Len(row)
\* row[i] || ''
orEmpty(row, i) == IF has(row, i) THEN at(row, i) ELSE <<>>
MinOf(S) == CHOOSE x \in S : \A y \in S : x <= y
\* the indexes of S in increasing order
RECURSIVE ascending(_)
ascending(S) ==
  IF S = {} THEN <<>> ELSE <<MinOf(S)>> \o ascending(S \ {MinOf(S)})

\* the matchers with amount ahead of ex_date
COLUMN_MATCHERS_AmountFirst ==
  <<"amount", "ex_date", "indicator", "announcement_date", "payment_date", "description">>
COLUMN_MATCHERS ==
  <<"ex_date", "amount", "indicator", "announcement_date", "payment_date", "description">>
dividendMatcher(name, header) ==
  CASE name = "ex_date" -> isExDateColumn(header)
    [] name = "amount" -> isAmountColumn(header)
    [] name = "indicator" -> isIndicatorColumn(header)
    [] name = "announcement_date" -> isAnnouncementDateColumn(header)
    [] name = "payment_date" -> isPaymentDateColumn(header)
    [] name = "description" -> isDescriptionColumn(header)

PRICE_COLUMN_MATCHERS == <<"date", "open", "high", "low", "close">>
priceMatcher(name, header) ==
  CASE name = "date" -> isDateColumn(header)
    [] name = "open" -> isOpenColumn(header)
    [] name = "high" -> isHighColumn(header)
    [] name = "low" -> isLowColumn(header)
    [] name = "close" -> isCloseColumn(header)

\* a scan that does not skip the columns already claimed
allColumns(headers, claimed) == 0..(Len(headers) - 1)
\* the column indexes i with !claimed.has(i)
unclaimedColumns(headers, claimed) == (0..(Len(headers) - 1)) \ claimed

\* the loop of mapDividendColumns from the k-th matcher on
RECURSIVE claimDividendColumns(_, _, _, _)
claimDividendColumns(headers, k, claimed, mapping) ==
  IF k > Len(COLUMN_MATCHERS)
    THEN [mapping EXCEPT !.extras = ascending(unclaimedColumns(headers, claimed))]
    ELSE
      LET claim(free) ==
            IF free = {}
              THEN claimDividendColumns(headers, k + 1, claimed, mapping)
              ELSE claimDividendColumns(headers, k + 1, claimed \cup {MinOf(free)},
                                        [mapping EXCEPT ![COLUMN_MATCHERS[k]] = MinOf(free)])
      IN  claim({i \in unclaimedColumns(headers, claimed) :
                   dividendMatcher(COLUMN_MATCHERS[k], at(headers, i))})

mapDividendColumns(headers) ==
  claimDividendColumns(headers, 1, {},
    [ex_date |-> UNDEFINED, amount |-> UNDEFINED, indicator |-> UNDEFINED,
     announcement_date |-> UNDEFINED, payment_date |-> UNDEFINED,
     description |-> UNDEFINED, extras |-> <<>>])

\* the loop of mapPriceColumns from the k-th matcher on
RECURSIVE claimPriceColumns(_, _, _, _)
claimPriceColumns(headers, k, claimed, mapping) ==
  IF k > Len(PRICE_COLUMN_MATCHERS)
    THEN [mapping EXCEPT !.extras = ascending(unclaimedColumns(headers, claimed))]
    ELSE
      LET claim(free) ==
            IF free = {}
              THEN claimPriceColumns(headers, k + 1, claimed, mapping)
              ELSE claimPriceColumns(headers, k + 1, claimed \cup {MinOf(free)},
                                     [mapping EXCEPT ![PRICE_COLUMN_MATCHERS[k]] = MinOf(free)])
      IN  claim({i \in unclaimedColumns(headers, claimed) :
                   priceMatcher(PRICE_COLUMN_MATCHERS[k], at(headers, i))})

mapPriceColumns(headers) ==
  claimPriceColumns(headers, 1, {},
    [date |-> UNDEFINED, open |-> UNDEFINED, high |-> UNDEFINED,
     low |-> UNDEFINED, close |-> UNDEFINED, extras |-> <<>>])

hasRequiredOHLCColumns(mapping) ==
  /\ mapping.open # UNDEFINED
  /\ mapping.high # UNDEFINED
  /\ mapping.low # UNDEFINED
  /\ mapping.close # UNDEFINED

\* findOHLCHeaderRow: the index of the first of the first five rows whose mapping
\* has open, high, low and close; UNDEFINED for the code's null
findOHLCHeaderRow(data) ==
  LET first(found) == IF found = {} THEN UNDEFINED ELSE MinOf(found)
  IN  first({i \in 0..(Min(HEADER_SEARCH_ROWS, Len(data)) - 1) :
               hasRequiredOHLCColumns(mapPriceColumns(at(data, i)))})

\* cleanDividendData, step 1: the columns with a data cell other than "view" or ''
columnsToKeep(headerRow, dataRows) ==
  ascending({colIndex \in 0..(Len(headerRow) - 1) :
    \E r \in 1..Len(dataRows) :
      LET cell == IF has(dataRows[r], colIndex)
                    THEN trim(toLowerCase(at(dataRows[r], colIndex)))
                    ELSE <<>>
      IN  cell # <<"v","i","e","w">> /\ cell # <<>>})

\* cleanDividendData, step 2: rows cut to the columns keep, row[i] || ''
cutColumns(rows, keep) ==
  [r \in 1..Len(rows) |-> [c \in 1..Len(keep) |-> orEmpty(rows[r], keep[c])]]

\* a filter that also drops the rows whose ex-date is not a date
keepRowsWithAmountAndExDate(filteredRows, mapping) ==
  SelectSeq(filteredRows,
    LAMBDA row : /\ IF has(row, mapping.amount)
                      THEN trim(at(row, mapping.amount)) \notin {<<>>, <<"-">>}
                      ELSE TRUE
                 /\ parseDateToISO(orEmpty(row, mapping.ex_date)) # INVALID_DATE)
\* cleanDividendData, the filter of step 5: the rows whose amount cell is neither ''
\* nor '-'. A row whose amount cell is undefined (no column was mapped to amount)
\* passes both comparisons.
keepRowsWithAmount(filteredRows, mapping) ==
  SelectSeq(filteredRows,
    LAMBDA row : IF has(row, mapping.amount)
                   THEN trim(at(row, mapping.amount)) \notin {<<>>, <<"-">>}
                   ELSE TRUE)

\* cleanDividendData, steps 1 to 3 and the filter of step 5: the data rows, cut to
\* the kept columns, that the filter keeps
cleanDividendRows(data) ==
  keepRowsWithAmount(
    cutColumns(Tail(data), columnsToKeep(data[1], Tail(data))),
    mapDividendColumns(cutColumns(<<data[1]>>, columnsToKeep(data[1], Tail(data)))[1]))

\* the number of rows of the grid cleanDividendData returns
cleanDividendDataLength(data) ==
  IF Len(data) = 0 THEN 0 ELSE 1 + Len(cleanDividendRows(data))

\* cleanPriceData: the index of the date cell in a data row, the mapped index
\* shifted by columnOffset, 0 when no column was mapped to date
finalDateIndex(mapping, headerRow, dataRows) ==
  IF mapping.date # UNDEFINED
    THEN mapping.date + Max(0, Len(dataRows[1]) - Len(headerRow))
    ELSE 0

\* cleanPriceData, the filter: the rows whose date cell is neither '' nor '-'
\* (an undefined cell passes)
keepRowsWithDate(dataRows, dateIndex) ==
  SelectSeq(dataRows,
    LAMBDA row : IF has(row, dateIndex)
                   THEN trim(at(row, dateIndex)) \notin {<<>>, <<"-">>}
                   ELSE TRUE)

\* cleanPriceData: the data rows after the header row at headerRowIndex that the
\* filter keeps
cleanPriceRows(data, headerRowIndex) ==
  keepRowsWithDate(
    SubSeq(data, headerRowIndex + 2, Len(data)),
    finalDateIndex(mapPriceColumns(at(data, headerRowIndex)), at(data, headerRowIndex),
                   SubSeq(data, headerRowIndex + 2, Len(data))))

\* the number of rows of the grid cleanPriceData returns, headerRowIndex being what
\* findOHLCHeaderRow found
priceDataLength(data, headerRowIndex) ==
  IF headerRowIndex = UNDEFINED THEN Len(data)
  ELSE IF Len(data) = headerRowIndex + 1 THEN Len(data)
  ELSE 1 + Len(cleanPriceRows(data, headerRowIndex))

cleanPriceDataLength(data) ==
  IF Len(data) = 0 THEN 0 ELSE priceDataLength(data, findOHLCHeaderRow(data))

(* ------------------------------------------------------------------ *)
(* The host page. The table element is state: the page re-renders it   *)
(* between the handlers of the content script. Three pages:            *)
(*   "dividend", "price": a virtualized table that shows any of a few  *)
(*       windows of its rows, or no row at all;                        *)
(*   "stream": a lazily loading table that renders one more row after  *)
(*       a scroll, up to MaxFresh rows, and shows its last two rows;   *)
(*   "static": a table whose one data row is rendered once or twice.   *)
(* Pixel geometry is not tracked: each read of clientHeight, scrollTop *)
(* and scrollHeight returns any of a few values the layout can have.   *)
(* ------------------------------------------------------------------ *)
thDividend == Tr("thead", << <<"E","x"," ","D","a","t","e">>, <<"A","m","o","u","n","t">> >>)
trPaid == Tr("tbody", << <<" ","a">>, <<"1">> >>)
\* two rows with the same hashRow "a|b|-"
trBarDash == Tr("tbody", << <<"a","|","b">>, <<MINUS_SIGN>> >>)
trDashBar == Tr("tbody", << <<"a">>, <<"b","|","-">> >>)
trBlank == Tr("tbody", << <<>>, <<" ">> >>)
thPrice ==
  Tr("thead", << <<"D","a","t","e">>, <<"O","p","e","n">>, <<"H","i","g","h">>,
                 <<"L","o","w">>, <<"C","l","o","s","e">> >>)
trQuote == Tr("tbody", << <<"1">>, <<"2">>, <<"3">>, <<"4">>, <<"5">> >>)
trNoDate == Tr("tbody", << <<"-">>, <<"2">>, <<"3">>, <<"4">>, <<"5">> >>)
trFresh(n) == Tr("tbody", << numberToString(n), <<"1">> >>)

Hosts == {"dividend", "price", "stream", "static"}
Screens(h) ==
  CASE h = "dividend" ->
         { <<thDividend, trPaid>>, <<thDividend, trPaid, trBarDash>>,
           <<thDividend, trDashBar, trBlank>>, <<>> }
    [] h = "price" ->
         { <<thPrice, trQuote>>, <<thPrice, trQuote, trNoDate>>, <<thPrice, trNoDate>>, <<>> }
    [] h = "static" -> { <<thDividend, trPaid>>, <<thDividend, trPaid, trPaid>> }
    [] h = "stream" -> {}
streamRows(loaded) ==
  <<thDividend>> \o [i \in 1..Min(2, loaded) |-> trFresh(loaded - Min(2, loaded) + i)]

ClientHeights(h) == IF h \in {"stream", "static"} THEN {50} ELSE {40, 50}
\* <<scrollTop, scrollHeight>> as read after the wait; the browser keeps
\* 0 <= scrollTop <= max(0, scrollHeight - clientHeight). The lazily loading
\* page t is scrolled to its end only once it has loaded its last row.
ScrollReads(h, t) ==
  LET reads == IF h = "stream"
                 THEN IF t.loaded < MaxFresh THEN {<<40, 1000>>}
                      ELSE {<<40, 1000>>, <<950, 1000>>}
               ELSE IF h = "static"
                 THEN {<<40, 1000>>, <<950, 1000>>}
               ELSE {<<0, 0>>, <<40, 1000>>, <<940, 1000>>, <<960, 1000>>}
  IN  {g \in reads : \E ch \in ClientHeights(h) : g[1] >= 0 /\ g[1] <= Max(0, g[2] - ch)}
\* tableIndex values a startFullDownload message carries
TableIndexes == {0 - 1, 0, 1}

(* ------------------------------------------------------------------ *)
(* JavaScript numbers that may be NaN                                  *)
(* ------------------------------------------------------------------ *)
Num(v) == [nan |-> FALSE, val |-> v]
NaN == [nan |-> TRUE, val |-> 0]

\* Math.min(SCROLL_PROGRESS_CAP, Math.round((scrollTop / scrollHeight) * 100)) for
\* scrollTop >= 0, scrollHeight >= 0: 0/0 is NaN and Math.min keeps it; x/0 is
\* Infinity for x > 0 and Math.min caps it; Math.round rounds half up
scrollProgress(scrollTop, scrollHeight) ==
  IF scrollHeight = 0
    THEN IF scrollTop = 0 THEN NaN ELSE Num(SCROLL_PROGRESS_CAP)
    ELSE Num(Min(SCROLL_PROGRESS_CAP, (200 * scrollTop + scrollHeight) \div (2 * scrollHeight)))

\* scrollTop + clientHeight >= scrollHeight - BOTTOM_THRESHOLD_PX
reachedBottom(scrollTop, clientHeight, scrollHeight) ==
  scrollTop + clientHeight >= scrollHeight - BOTTOM_THRESHOLD_PX

(* ------------------------------------------------------------------ *)
(* Map<string, string[]>: entries in insertion order                   *)
(* ------------------------------------------------------------------ *)
mapHas(m, key) == \E i \in 1..Len(m) : m[i].key = key
\* a set() that adds an entry even when the key is present
mapSetAlwaysAppends(m, key, value) == Append(m, [key |-> key, value |-> value])
\* a set() that moves a present key behind all others
mapSetMovesToEnd(m, key, value) ==
  Append(SelectSeq(m, LAMBDA entry : entry.key # key), [key |-> key, value |-> value])
\* Map.prototype.set: a present key keeps its place and takes the new value
mapSet(m, key, value) ==
  IF mapHas(m, key)
    THEN [i \in 1..Len(m) |-> IF m[i].key = key THEN [key |-> key, value |-> value] ELSE m[i]]
    ELSE Append(m, [key |-> key, value |-> value])
\* Array.from(map.values())
mapValues(m) == [i \in 1..Len(m) |-> m[i].value]

\* a collection that keeps only the rows of the latest extraction
collectRowsOfThisStepOnly(uniqueRows, data) ==
  [i \in 1..Len(data) |-> [key |-> hashRow(data[i]), value |-> data[i]]]
\* for (const row of data) uniqueRows.set(hashRow(row), row)
RECURSIVE collectRows(_, _)
collectRows(uniqueRows, data) ==
  IF data = <<>> THEN uniqueRows
  ELSE collectRows(mapSet(uniqueRows, hashRow(data[1]), data[1]), Tail(data))

(* ------------------------------------------------------------------ *)
(* The grids the two standardizers return (src/content/detection.ts).  *)
(* An object with string values is the sequence of its properties in   *)
(* the order they were created; the timeframe cleanPriceData returns   *)
(* beside its grid is not tracked.                                     *)
(* ------------------------------------------------------------------ *)
\* [a-z0-9]
SnakeChars == LowerChars \cup Digits
RECURSIVE skipOthers(_)
skipOthers(s) ==
  IF s # <<>> /\ s[1] \notin SnakeChars THEN skipOthers(Tail(s)) ELSE s
\* .replace(/[^a-z0-9]+/g, '_')
RECURSIVE underscored(_)
underscored(s) ==
  IF s = <<>> THEN <<>>
  ELSE IF s[1] \in SnakeChars THEN <<s[1]>> \o underscored(Tail(s))
  ELSE <<"_">> \o underscored(skipOthers(s))
\* .replace(/^_|_$/g, '')
stripUnderscores(s) ==
  LET stripEnd(t) == IF t # <<>> /\ t[Len(t)] = "_" THEN SubSeq(t, 1, Len(t) - 1) ELSE t
  IN  stripEnd(IF s # <<>> /\ s[1] = "_" THEN Tail(s) ELSE s)
toSnakeCase(header) == stripUnderscores(underscored(toLowerCase(header)))

\* `col_${i}`
colName(i) == <<"c","o","l","_">> \o numberToString(i)
\* a || b for strings
orElse(a, b) == IF a # <<>> THEN a ELSE b
\* a ?? b for column indexes
coalesce(a, b) == IF a # UNDEFINED THEN a ELSE b

\* extras[key] = value
setProperty(extras, key, value) == mapSet(extras, key, value)
\* a property name that is an array index: the canonical decimal of an integer
\* below 2^32 - 1 (the keys under study have fewer than ten digits)
isArrayIndex(key) ==
  /\ key # <<>>
  /\ \A i \in 1..Len(key) : key[i] \in Digits
  /\ Len(key) = 1 \/ key[1] # "0"
  /\ Len(key) <= 9
\* the order in which the properties of an object are enumerated: array indexes in
\* increasing order, then the other names in the order they were created
ownProperties(extras) ==
  LET indexes == ascending({toNumber(extras[i].key) :
                              i \in {j \in 1..Len(extras) : isArrayIndex(extras[j].key)}})
  IN  [k \in 1..Len(indexes) |->
         extras[CHOOSE i \in 1..Len(extras) :
                  isArrayIndex(extras[i].key) /\ toNumber(extras[i].key) = indexes[k]]]
      \o SelectSeq(extras, LAMBDA property : ~isArrayIndex(property.key))
\* JSON.stringify of a string: quotes and backslashes are escaped (the cells under
\* study have no control character)
RECURSIVE escaped(_)
escaped(s) ==
  IF s = <<>> THEN <<>>
  ELSE (IF s[1] \in {"\"", "\\"} THEN <<"\\", s[1]>> ELSE <<s[1]>>) \o escaped(Tail(s))
quoted(s) == <<"\"">> \o escaped(s) \o <<"\"">>
RECURSIVE members(_)
members(properties) ==
  IF properties = <<>> THEN <<>>
  ELSE quoted(properties[1].key) \o <<":">> \o quoted(properties[1].value)
       \o (IF Len(properties) > 1 THEN <<",">> ELSE <<>>) \o members(Tail(properties))
\* JSON.stringify of an object with string values
JSONstringify(extras) == <<"{">> \o members(ownProperties(extras)) \o <<"}">>
\* Object.keys(extras).length > 0 ? JSON.stringify(extras) : ''
stringifyOrEmpty(extras) == IF Len(extras) > 0 THEN JSONstringify(extras) ELSE <<>>

\* buildExtrasJson, the loop: for (const i of extrasIndexes)
RECURSIVE collectExtras(_, _, _, _)
collectExtras(row, headers, extrasIndexes, extras) ==
  IF extrasIndexes = <<>> THEN extras
  ELSE
    LET add(key, value) ==
          IF key # <<>> /\ value # <<>> THEN setProperty(extras, key, value) ELSE extras
    IN  collectExtras(row, headers, Tail(extrasIndexes),
          add(toSnakeCase(orElse(orEmpty(headers, extrasIndexes[1]), colName(extrasIndexes[1]))),
              orEmpty(row, extrasIndexes[1])))
buildExtrasJson(row, headers, extrasIndexes) ==
  IF Len(extrasIndexes) = 0 THEN <<>>
  ELSE stringifyOrEmpty(collectExtras(row, headers, extrasIndexes, <<>>))

reorderDividendRow(row, headers, mapping, includeExtras) ==
  << parseDateToISO(orEmpty(row, mapping.ex_date)), orEmpty(row, mapping.amount) >>
  \o (IF mapping.indicator # UNDEFINED THEN <<orEmpty(row, mapping.indicator)>> ELSE <<>>)
  \o (IF mapping.announcement_date # UNDEFINED
        THEN <<parseDateToISO(orEmpty(row, mapping.announcement_date))>> ELSE <<>>)
  \o (IF mapping.payment_date # UNDEFINED
        THEN <<parseDateToISO(orEmpty(row, mapping.payment_date))>> ELSE <<>>)
  \o (IF mapping.description # UNDEFINED THEN <<orEmpty(row, mapping.description)>> ELSE <<>>)
  \o (IF includeExtras /\ Len(mapping.extras) > 0
        THEN <<buildExtrasJson(row, headers, mapping.extras)>> ELSE <<>>)

buildStandardizedHeader(mapping) ==
  << <<"e","x","_","d","a","t","e">>, <<"a","m","o","u","n","t">> >>
  \o (IF mapping.indicator # UNDEFINED
        THEN << <<"i","n","d","i","c","a","t","o","r">> >> ELSE <<>>)
  \o (IF mapping.announcement_date # UNDEFINED
        THEN << <<"a","n","n","o","u","n","c","e","m","e","n","t","_","d","a","t","e">> >>
        ELSE <<>>)
  \o (IF mapping.payment_date # UNDEFINED
        THEN << <<"p","a","y","m","e","n","t","_","d","a","t","e">> >> ELSE <<>>)
  \o (IF mapping.description # UNDEFINED
        THEN << <<"d","e","s","c","r","i","p","t","i","o","n">> >> ELSE <<>>)
  \o (IF Len(mapping.extras) > 0 THEN << <<"e","x","t","r","a","s">> >> ELSE <<>>)

\* cleanDividendData, steps 4 and 5, for the header and rows of step 2 and the
\* mapping of step 3
standardizedDividend(filteredHeader, filteredRows, mapping) ==
  LET reordered(rows) ==
        [r \in 1..Len(rows) |->
           reorderDividendRow(rows[r], filteredHeader, mapping, Len(mapping.extras) > 0)]
  IN  <<buildStandardizedHeader(mapping)>>
      \o reordered(keepRowsWithAmount(filteredRows, mapping))
\* cleanDividendData, steps 2 to 5, for the columns of step 1
filteredDividend(headerRow, dataRows, keep) ==
  LET mapped(filteredHeader) ==
        standardizedDividend(filteredHeader, cutColumns(dataRows, keep),
                             mapDividendColumns(filteredHeader))
  IN  mapped(cutColumns(<<headerRow>>, keep)[1])
cleanDividendData(data) ==
  IF Len(data) = 0 THEN data
  ELSE filteredDividend(data[1], Tail(data), columnsToKeep(data[1], Tail(data)))

\* a header that never has the extras column
buildPriceHeaderWithoutExtras(mapping) ==
  << <<"d","a","t","e">>, <<"o","p","e","n">>, <<"h","i","g","h">>, <<"l","o","w">>,
     <<"c","l","o","s","e">> >>
\* cleanDividendData, step 3: the mapping of the header row cut to the columns kept
dividendMapping(data) ==
  mapDividendColumns(cutColumns(<<data[1]>>, columnsToKeep(data[1], Tail(data)))[1])

buildPriceHeader(mapping) ==
  << <<"d","a","t","e">>, <<"o","p","e","n">>, <<"h","i","g","h">>, <<"l","o","w">>,
     <<"c","l","o","s","e">> >>
  \o (IF Len(mapping.extras) > 0 THEN << <<"e","x","t","r","a","s">> >> ELSE <<>>)

\* cleanPriceData: the mapping of the header row with columnOffset applied
finalMapping(mapping, columnOffset) ==
  [date |-> IF mapping.date # UNDEFINED THEN mapping.date + columnOffset ELSE 0,
   open |-> coalesce(mapping.open, 0) + columnOffset,
   high |-> coalesce(mapping.high, 1) + columnOffset,
   low |-> coalesce(mapping.low, 2) + columnOffset,
   close |-> coalesce(mapping.close, 3) + columnOffset,
   extras |-> [i \in 1..Len(mapping.extras) |-> mapping.extras[i] + columnOffset]]
\* cleanPriceData: the header of every extras column, col_N where the header row
\* has no cell or an empty one for it
extrasHeaders(extras, headerRow, columnOffset) ==
  [i \in 1..Len(extras) |->
     IF extras[i] - columnOffset >= 0 /\ extras[i] - columnOffset < Len(headerRow)
       THEN orElse(at(headerRow, extras[i] - columnOffset), colName(extras[i]))
       ELSE colName(extras[i])]
\* cleanPriceData, the loop over finalMapping.extras from its i-th entry on
RECURSIVE collectPriceExtras(_, _, _, _, _)
collectPriceExtras(row, extrasIndexes, headers, i, extras) ==
  IF i > Len(extrasIndexes) THEN extras
  ELSE
    LET add(key, value) ==
          IF key # <<>> /\ value # <<>> THEN setProperty(extras, key, value) ELSE extras
    IN  collectPriceExtras(row, extrasIndexes, headers, i + 1,
          add(toSnakeCase(orElse(headers[i], colName(extrasIndexes[i]))),
              orEmpty(row, extrasIndexes[i])))
\* cleanPriceData, the standardized row of one data row
reorderPriceRow(row, mapping, headers) ==
  << parseDateToISO(orEmpty(row, mapping.date)),
     orEmpty(row, mapping.open), orEmpty(row, mapping.high),
     orEmpty(row, mapping.low), orEmpty(row, mapping.close) >>
  \o (IF Len(mapping.extras) > 0
        THEN <<stringifyOrEmpty(collectPriceExtras(row, mapping.extras, headers, 1, <<>>))>>
        ELSE <<>>)
\* cleanPriceData from the final mapping on
standardizedPrice(headerRow, dataRows, mapping, columnOffset) ==
  LET reordered(rows, headers) ==
        [r \in 1..Len(rows) |-> reorderPriceRow(rows[r], mapping, headers)]
  IN  <<buildPriceHeader(mapping)>>
      \o reordered(keepRowsWithDate(dataRows, mapping.date),
                   extrasHeaders(mapping.extras, headerRow, columnOffset))
\* cleanPriceData: columnOffset and finalMapping for the header row at
\* headerRowIndex and the data rows after it, of which there is one at least
columnOffset(data, headerRowIndex) ==
  Max(0, Len(at(data, headerRowIndex + 1)) - Len(at(data, headerRowIndex)))
priceMapping(data, headerRowIndex) ==
  finalMapping(mapPriceColumns(at(data, headerRowIndex)), columnOffset(data, headerRowIndex))
\* cleanPriceData for the header row findOHLCHeaderRow found
priceGrid(data, headerRowIndex) ==
  IF headerRowIndex = UNDEFINED THEN data
  ELSE IF Len(data) = headerRowIndex + 1 THEN data
  ELSE
    LET offset(headerRow, dataRows) == Max(0, Len(dataRows[1]) - Len(headerRow))
        standardized(headerRow, dataRows) ==
          standardizedPrice(headerRow, dataRows,
            finalMapping(mapPriceColumns(headerRow), offset(headerRow, dataRows)),
            offset(headerRow, dataRows))
    IN  standardized(at(data, headerRowIndex), SubSeq(data, headerRowIndex + 2, Len(data)))
\* the data of the result of cleanPriceData
cleanPriceData(data) ==
  IF Len(data) = 0 THEN data ELSE priceGrid(data, findOHLCHeaderRow(data))

(* ------------------------------------------------------------------ *)
(* State                                                               *)
(* ------------------------------------------------------------------ *)
VARIABLES
  host,               \* which page the content script runs in
  table,              \* the table element: its rows, and the lazy loader's progress
  downloadCancelled,  \* download.ts: the module-level flag
  startsLeft,         \* startFullDownload messages the popup has yet to send
  run,                \* the calls of handleFullDownload, by order of arrival
  outbox,             \* the progress events the latest step of a download sent, in order
  input,              \* a function of the standardizer under study: its name and argument
  output              \* what that function returned, once it has

vars == <<host, table, downloadCancelled, startsLeft, run, outbox, input, output>>

\* no function is under study
NoCall == [fn |-> "none"]

Runs == 1..MaxRuns
NoEvent == [status |-> "none", rowsCollected |-> 0, error |-> ""]

\* One call of handleFullDownload. pc: "idle" (not called yet), "scrollWait" (at the
\* await of SCROLL_DELAY_MS), "finalWait" (at the await of FINAL_CONTENT_DELAY_MS),
\* "done" (promise fulfilled), "rejected" (promise rejected by an uncaught exception).
\* tableIndex is the argument, validCount is validTables.length. The fields from
\* seen on record what happened and are read by no action: cancelAsked, that
\* cancelDownload arrived during the wait the run is at; startedCancelled, that
\* downloadCancelled was set when the run was started; scrollTop and scrollHeight,
\* what the latest scroll step read; beforeFinal, uniqueRows.size when the final
\* wait began.
IdleRun ==
  [pc |-> "idle", tableIndex |-> 0, validCount |-> 0, tableType |-> "null", uniqueRows |-> <<>>, lastRowCount |-> 0,
   noNewRowsCount |-> 0, scrollAttempts |-> 0, clientHeight |-> 0,
   seen |-> {}, lastNewStep |-> 0, extractions |-> 0, checks |-> 0,
   cancelAsked |-> FALSE, startedCancelled |-> FALSE,
   scrollTop |-> 0, scrollHeight |-> 0, beforeFinal |-> 0, exit |-> "none",
   events |-> 0, statuses |-> {}, last |-> NoEvent]

Event(r, status, progress, rowsCollected, error) ==
  [run |-> r, status |-> status, progress |-> progress,
   rowsCollected |-> rowsCollected, error |-> error]

\* the run after chrome.runtime.sendMessage of each of evs
RECURSIVE sent(_, _)
sent(rr, evs) ==
  IF evs = <<>> THEN rr
  ELSE sent([rr EXCEPT !.events = @ + 1,
                       !.statuses = @ \cup {evs[1].status},
                       !.last = [status |-> evs[1].status,
                                 rowsCollected |-> evs[1].rowsCollected,
                                 error |-> evs[1].error]],
            Tail(evs))

\* one extraction merged into uniqueRows, during scroll step rr.scrollAttempts
extracted(rr, data) ==
  [rr EXCEPT !.uniqueRows = collectRows(@, data),
             !.extractions = @ + 1,
             !.seen = @ \cup {data[i] : i \in 1..Len(data)},
             !.lastNewStep = IF \E i \in 1..Len(data) : data[i] \notin rr.seen
                               THEN rr.scrollAttempts ELSE @]

\* the loop is entered: let lastRowCount = uniqueRows.size
entered(rr) == [rr EXCEPT !.lastRowCount = Len(rr.uniqueRows)]

\* the run after it sent evs, and evs
withEvents(rr, evs) == [run |-> sent(rr, evs), events |-> evs]

\* allRows.filter((row) => row.some((cell) => cell !== ''))
nonEmptyRows(allRows) ==
  SelectSeq(allRows, LAMBDA row : \E j \in 1..Len(row) : row[j] # <<>>)

\* filteredRows.length after the cleaning by table type
cleanedLength(tableType, filteredRows) ==
  IF tableType = "dividend" THEN cleanDividendDataLength(filteredRows)
  ELSE IF tableType = "price" THEN cleanPriceDataLength(filteredRows)
  ELSE Len(filteredRows)

\* handleFullDownload after scrollAndCollectRows has returned: the rows with a
\* non-empty cell, cleaned by table type, and the 'complete' event
completed(r, rr) ==
  withEvents([rr EXCEPT !.pc = "done"],
             << Event(r, "complete", Num(100),
                      cleanedLength(rr.tableType, nonEmptyRows(mapValues(rr.uniqueRows))),
                      "") >>)

\* a loop condition that allows one more step without new rows
loopContinuesOneMoreStall(scrollAttempts, noNewRowsCount) ==
  /\ scrollAttempts < MAX_SCROLL_ATTEMPTS
  /\ noNewRowsCount <= MAX_NO_NEW_ROWS_ATTEMPTS
\* a loop condition without the cap on scroll attempts
loopContinuesWithoutCap(scrollAttempts, noNewRowsCount) ==
  noNewRowsCount < MAX_NO_NEW_ROWS_ATTEMPTS
\* while (scrollAttempts < MAX_SCROLL_ATTEMPTS && noNewRowsCount < MAX_NO_NEW_ROWS_ATTEMPTS)
loopContinues(scrollAttempts, noNewRowsCount) ==
  /\ scrollAttempts < MAX_SCROLL_ATTEMPTS
  /\ noNewRowsCount < MAX_NO_NEW_ROWS_ATTEMPTS

\* The top of the while loop of scrollAndCollectRows, up to the next await:
\* the loop condition, the cancellation check, scrollAttempts++ and the scroll.
\* cancelled is downloadCancelled, clientHeight what getClientHeight() returns.
loopTop(r, rr, cancelled, clientHeight) ==
  IF ~loopContinues(rr.scrollAttempts, rr.noNewRowsCount)
    THEN completed(r, [rr EXCEPT !.exit = IF rr.scrollAttempts >= MAX_SCROLL_ATTEMPTS
                                            THEN "cap" ELSE "stalled"])
  ELSE IF cancelled
    THEN \* onProgress 'cancelled', throw; the catch of handleFullDownload sends 'error'
      withEvents([rr EXCEPT !.pc = "done", !.exit = "cancelled", !.checks = @ + 1],
                 << Event(r, "cancelled", Num(0), Len(rr.uniqueRows), ""),
                    Event(r, "error", Num(0), 0, "Download cancelled") >>)
  ELSE [run |-> [rr EXCEPT !.pc = "scrollWait", !.checks = @ + 1,
                           !.cancelAsked = FALSE,
                           !.scrollAttempts = @ + 1,
                           !.clientHeight = clientHeight],
        events |-> <<>>]

\* the run after const scrollTop = getScrollTop(), scrollHeight = getScrollHeight()
measured(rr, scrollTop, scrollHeight) ==
  [rr EXCEPT !.scrollTop = scrollTop, !.scrollHeight = scrollHeight]

\* a bottom branch that breaks without collecting again
noFinalCollection(rr, data) == rr
\* the final collection: for (const row of finalData) uniqueRows.set(hashRow(row), row)
finalCollection(rr, data) == extracted(rr, data)

\* the lazy loader notices a scroll
scrolled(t, before, after) ==
  IF host = "stream" /\ after.scrollAttempts > before.scrollAttempts
    THEN [t EXCEPT !.pending = TRUE]
    ELSE t

\* the 'scrolling' event of a step that found scrollTop and scrollHeight
scrollingEvent(r, rr, scrollTop, scrollHeight) ==
  Event(r, "scrolling", scrollProgress(scrollTop, scrollHeight), Len(rr.uniqueRows), "")

\* a counter that is never reset
countedWithoutReset(rr) ==
  IF Len(rr.uniqueRows) = rr.lastRowCount
    THEN [rr EXCEPT !.noNewRowsCount = @ + 1]
    ELSE [rr EXCEPT !.lastRowCount = Len(rr.uniqueRows)]
\* if (uniqueRows.size === lastRowCount) noNewRowsCount++ else reset
counted(rr) ==
  IF Len(rr.uniqueRows) = rr.lastRowCount
    THEN [rr EXCEPT !.noNewRowsCount = @ + 1]
    ELSE [rr EXCEPT !.noNewRowsCount = 0, !.lastRowCount = Len(rr.uniqueRows)]

\* the events that follow those of first
after(first, rest) == [run |-> rest.run, events |-> first.events \o rest.events]

\* The loop body after the wait, got being the run after the extraction: the
\* 'scrolling' event, then the final wait at the bottom of the page, or the
\* counter and the top of the next iteration
afterScroll(r, got, scrollTop, scrollHeight, clientHeight) ==
  IF reachedBottom(scrollTop, got.clientHeight, scrollHeight)
    THEN withEvents([got EXCEPT !.pc = "finalWait", !.beforeFinal = Len(got.uniqueRows)],
                    <<scrollingEvent(r, got, scrollTop, scrollHeight)>>)
    ELSE after(withEvents(got, <<scrollingEvent(r, got, scrollTop, scrollHeight)>>),
               loopTop(r, counted(sent(got, <<scrollingEvent(r, got, scrollTop, scrollHeight)>>)),
                       downloadCancelled, clientHeight))

(* ------------------------------------------------------------------ *)
(* Actions                                                             *)
(* ------------------------------------------------------------------ *)
\* a start that leaves the flag as it finds it
leftAsItWas(cancelled) == cancelled
\* scrollAndCollectRows, its first statement: downloadCancelled = false
reset(cancelled) == FALSE

\* run r has run up to its next await, or to its end, with this outcome
Settle(r, outcome) ==
  /\ run' = [run EXCEPT ![r] = outcome.run]
  /\ outbox' = outcome.events
  /\ table' = scrolled(table, run[r], outcome.run)

\* handleFullDownload(tableIndex) up to its first await, the table of the page being
\* of type tableType; validTables holds it if it is classified
handleFullDownload(r, tableIndex, tableType, validCount) ==
  IF tableIndex >= validCount
    THEN /\ Settle(r, withEvents([run[r] EXCEPT !.tableIndex = tableIndex,
                                                 !.validCount = validCount,
                                                 !.pc = "done", !.exit = "invalid"],
                                 <<Event(r, "error", Num(0), 0, "Invalid table index")>>))
         /\ UNCHANGED downloadCancelled
  ELSE IF tableIndex < 0
    THEN \* validTables[tableIndex] is undefined and getTableType(undefined)
         \* throws a TypeError before the try block
         /\ Settle(r, withEvents([run[r] EXCEPT !.tableIndex = tableIndex,
                                                 !.validCount = validCount,
                                                 !.pc = "rejected", !.exit = "thrown"],
                                 <<>>))
         /\ UNCHANGED downloadCancelled
  ELSE \E clientHeight \in ClientHeights(host) :
         /\ downloadCancelled' = reset(downloadCancelled)
         /\ Settle(r, loopTop(r, entered(extracted([run[r] EXCEPT !.tableIndex = tableIndex,
                                                                  !.validCount = validCount,
                                                                  !.tableType = tableType,
                                                                  !.startedCancelled = downloadCancelled],
                                                   tableToArray(table.rows))),
                              reset(downloadCancelled), clientHeight))

\* The listener receives startFullDownload and calls handleFullDownload(tableIndex)
StartFullDownload(tableIndex) ==
  /\ startsLeft > 0
  /\ \E r \in Runs :
       /\ run[r].pc = "idle"
       /\ \A q \in Runs : q < r => run[q].pc # "idle"
       /\ \E tableType \in {getTableType(table.rows)} :
            handleFullDownload(r, tableIndex, tableType, IF tableType # "null" THEN 1 ELSE 0)
  /\ startsLeft' = startsLeft - 1
  /\ UNCHANGED <<host, input, output>>

\* The listener receives cancelDownload: cancelCurrentDownload()
CancelDownload ==
  /\ downloadCancelled' = TRUE
  /\ run' = [r \in Runs |->
               IF run[r].pc \in {"scrollWait", "finalWait"}
                 THEN [run[r] EXCEPT !.cancelAsked = TRUE] ELSE run[r]]
  /\ UNCHANGED <<host, table, startsLeft, outbox, input, output>>

\* The SCROLL_DELAY_MS timer of run r fires: the rest of the loop body, and the
\* loop top of the next iteration or the end of the download
AfterScrollDelay(r) ==
  /\ run[r].pc = "scrollWait"
  /\ \E g \in ScrollReads(host, table), clientHeight \in ClientHeights(host) :
       Settle(r, afterScroll(r, measured(extracted(run[r], tableToArray(table.rows)),
                                         g[1], g[2]),
                             g[1], g[2], clientHeight))
  /\ UNCHANGED <<host, downloadCancelled, startsLeft, input, output>>

\* The FINAL_CONTENT_DELAY_MS timer of run r fires: the final collection, break
AfterFinalDelay(r) ==
  /\ run[r].pc = "finalWait"
  /\ Settle(r, completed(r, [finalCollection(run[r], tableToArray(table.rows))
                               EXCEPT !.exit = "bottom"]))
  /\ UNCHANGED <<host, downloadCancelled, startsLeft, input, output>>

\* The host page re-renders the table
PageRender ==
  /\ IF host = "stream"
       THEN /\ table.pending
            /\ table.loaded < MaxFresh
            /\ table' = [rows |-> streamRows(table.loaded + 1),
                         loaded |-> table.loaded + 1, pending |-> FALSE]
       ELSE \E rows \in Screens(host) \ {table.rows} :
              table' = [table EXCEPT !.rows = rows]
  /\ UNCHANGED <<host, downloadCancelled, startsLeft, run, outbox, input, output>>

Next ==
  \/ \E tableIndex \in TableIndexes : StartFullDownload(tableIndex)
  \/ CancelDownload
  \/ \E r \in Runs : AfterScrollDelay(r)
  \/ \E r \in Runs : AfterFinalDelay(r)
  \/ PageRender

\* the state after the content script has loaded into page h, the popup about to
\* send n startFullDownload messages
Loaded(h, n) ==
  /\ host = h
  /\ table \in IF h = "stream"
                 THEN {[rows |-> streamRows(1), loaded |-> 1, pending |-> FALSE]}
                 ELSE {[rows |-> rows, loaded |-> 0, pending |-> FALSE] : rows \in Screens(h)}
  /\ downloadCancelled = FALSE
  /\ startsLeft = n
  /\ run = [r \in Runs |-> IdleRun]
  /\ outbox = <<>>
  /\ input = NoCall
  /\ output = NoCall

\* one download of a virtualized dividend or price table
Init == \E h \in {"dividend", "price"} : Loaded(h, 1)
Spec == Init /\ [][Next]_vars

\* one download of a lazily loading table, long enough to reach MAX_SCROLL_ATTEMPTS
InitLong == Loaded("stream", 1)
SpecLong == InitLong /\ [][Next]_vars

\* the popup sends startFullDownload again while a download is running
InitOverlap == Loaded("static", MaxRuns)
SpecOverlap == InitOverlap /\ [][Next]_vars

(* ------------------------------------------------------------------ *)
(* The functions of the standardizer, each applied to one argument      *)
(* drawn from a bounded set: input is the call, output its result.      *)
(* The download does not run in these specifications.                   *)
(* ------------------------------------------------------------------ *)
\* the call of fn with arg
Call(fn, arg) == [fn |-> fn, arg |-> arg]
\* fn has returned value
Returned(fn, value) == [fn |-> fn, value |-> value]

\* the state before the call of one of fns with one of args
Calling(fns, args) ==
  /\ host = "static"
  /\ table = [rows |-> <<>>, loaded |-> 0, pending |-> FALSE]
  /\ downloadCancelled = FALSE
  /\ startsLeft = 0
  /\ run = [r \in Runs |-> IdleRun]
  /\ outbox = <<>>
  /\ input \in {Call(fn, arg) : fn \in fns, arg \in args}
  /\ output = NoCall

\* fn returns value
Return(fn, value) ==
  /\ input.fn = fn
  /\ output = NoCall
  /\ output' = Returned(fn, value)
  /\ UNCHANGED <<host, table, downloadCancelled, startsLeft, run, outbox, input>>

\* header cells of tables
hExDividendDate == <<"E","x"," ","D","i","v","i","d","e","n","d"," ","D","a","t","e">>
hAmount == <<"A","m","o","u","n","t">>
hDividendType == <<"D","i","v","i","d","e","n","d"," ","T","y","p","e">>
hPaymentDate == <<"P","a","y","m","e","n","t"," ","D","a","t","e">>
hFinancialYear == <<"F","i","n","a","n","c","i","a","l"," ","Y","e","a","r">>
hDate == <<"D","a","t","e">>
hOpen == <<"O","p","e","n">>
hHigh == <<"H","i","g","h">>
hLow == <<"L","o","w">>
hClose == <<"C","l","o","s","e">>
hOpenDate == <<"O","p","e","n"," ","D","a","t","e">>
hExDate == <<"E","x"," ","D","a","t","e">>
hPrices == <<"P","r","i","c","e","s">>
hAnnouncementDate ==
  <<"A","n","n","o","u","n","c","e","m","e","n","t"," ","D","a","t","e">>
hVolume == <<"V","o","l","u","m","e">>
hPercent == <<"%">>

\* the sequences over S of length 0 to n
RECURSIVE SeqsUpTo(_, _)
SeqsUpTo(S, n) ==
  IF n = 0 THEN {<<>>}
  ELSE SeqsUpTo(S, n - 1) \cup
       {Append(q, x) : q \in {p \in SeqsUpTo(S, n - 1) : Len(p) = n - 1}, x \in S}

\* the header rows mapDividendColumns and mapPriceColumns are applied to
MappingHeaderCells ==
  {hExDividendDate, hAmount, hDividendType, hPaymentDate, hFinancialYear,
   hOpenDate, hOpen, <<>>}
MappingHeaders == SeqsUpTo(MappingHeaderCells, MaxColumns)

MapDividendColumns == Return("mapDividendColumns", mapDividendColumns(input.arg))
MapPriceColumns == Return("mapPriceColumns", mapPriceColumns(input.arg))

NextMapping ==
  \/ MapDividendColumns
  \/ MapPriceColumns
InitMapping == Calling({"mapDividendColumns", "mapPriceColumns"}, MappingHeaders)
SpecMapping == InitMapping /\ [][NextMapping]_vars

\* The date strings parseDateToISO is applied to. Each comes with the numbers it
\* was written from: year, and first and second for the month and day fields in
\* the order they are written (text shapes: first is the month of the name, 0 for
\* a word that is no month name, second the day).
DateFields == 0..MaxDateField
DateYears == {1899, 1900, 2000, 2023, 2024, 2100, 2101}
ShortYears == {0, 24, 49, 50, 99}
MonthWords ==
  { <<"F","e","b">>, <<"f","e","b","r","u","a","r","y">>, <<"S","E","P","T">>,
    <<"A","p","r">>, <<"F","o","o">> }
DateInput(shape, dateStr, year, first, second) ==
  [shape |-> shape, dateStr |-> dateStr, year |-> year, first |-> first, second |-> second]
NumericInputs ==
  {DateInput("numeric",
             numberToString(a) \o <<sep>> \o numberToString(b) \o <<sep>> \o numberToString(y),
             y, a, b) : a \in DateFields, b \in DateFields, y \in DateYears, sep \in {"/", "."}}
IsoInputs ==
  {DateInput("iso",
             numberToString(y) \o <<sep>> \o numberToString(m) \o <<sep>> \o padStart2(d),
             y, m, d) : m \in DateFields, d \in DateFields, y \in DateYears, sep \in {"-", "/"}}
TextInputs ==
  {DateInput("text",
             IF dayFirst THEN numberToString(d) \o <<" ">> \o w \o <<" ">> \o numberToString(y)
             ELSE w \o <<" ">> \o numberToString(d) \o <<",", " ">> \o numberToString(y),
             y, MONTH_NAMES(toLowerCase(w)), d) :
     w \in MonthWords, d \in DateFields, y \in DateYears, dayFirst \in BOOLEAN}
ShortYearInputs ==
  {DateInput("text",
             IF dayFirst
               THEN <<"M","o","n"," ">> \o padStart2(d) \o <<" ">> \o w \o <<" ", "'">> \o padStart2(yy)
               ELSE w \o <<" ">> \o padStart2(d) \o <<" ", "'">> \o padStart2(yy),
             twoDigitYearToFour(yy), MONTH_NAMES(toLowerCase(w)), d) :
     w \in MonthWords, d \in DateFields, yy \in ShortYears, dayFirst \in BOOLEAN}
\* strings that are no date: blank, a dash, a word, a date with a time, a numeric
\* date with a two-digit year
OtherInputs ==
  {DateInput("other", dateStr, 0, 0, 0) :
     dateStr \in { <<>>, <<" ">>, <<"-">>, <<" ","-"," ">>, <<"a","b","c">>,
                   <<"2","0","2","4","-","0","2","-","2","9","T","0","0">>,
                   <<"2","9",".","0","2",".","2","4">>,
                   <<"1","2","3","/","1","/","2","0","2","4">> }}
DateInputs == NumericInputs \cup IsoInputs \cup TextInputs \cup ShortYearInputs \cup OtherInputs

ParseDateToISO == Return("parseDateToISO", parseDateToISO(input.arg.dateStr))

NextDates == ParseDateToISO
InitDates == Calling({"parseDateToISO"}, DateInputs)
SpecDates == InitDates /\ [][NextDates]_vars

\* The tables getTableType is applied to: titles rows with the one cell "Prices",
\* then a header row with the cells of HeaderCells that are in cells, in that
\* order, all in the section given; then data rows of numbers in the tbody.
HeaderCells == <<hDate, hOpen, hHigh, hLow, hClose, hExDate, hExDividendDate, hAmount>>
TableOf(cells, section, titles, dataRows) ==
  [i \in 1..titles |-> Tr(section, <<hPrices>>)]
    \o << Tr(section, SelectSeq(HeaderCells, LAMBDA c : c \in cells)) >>
    \o [i \in 1..dataRows |-> Tr("tbody", << <<"1">>, <<"2">>, <<"3">>, <<"4">>, <<"5">> >>)]
ClassifiedTables ==
  {[trs |-> TableOf(cells, section, titles, dataRows),
    cells |-> cells, section |-> section, titles |-> titles] :
     cells \in SUBSET {HeaderCells[i] : i \in 1..Len(HeaderCells)},
     section \in {"thead", "tbody"},
     titles \in 0..MaxTitleRows,
     dataRows \in 0..MaxDataRows}

GetTableType == Return("getTableType", getTableType(input.arg.trs))

NextClassify == GetTableType
InitClassify == Calling({"getTableType"}, ClassifiedTables)
SpecClassify == InitClassify /\ [][NextClassify]_vars

\* cells of data rows
cDayFirst == <<"1","5","/","0","1","/","2","0","2","4">>
cTBA == <<"T","B","A">>
cNoSuchDay == <<"3","1","/","0","2","/","2","0","2","4">>
cDash == <<"-">>
cAmount == <<"1",".","5","0">>
\* the texts a cell under the header cell h has in the grids under study
CellsFor(h) ==
  CASE h = hExDate -> {cDayFirst, cTBA, cNoSuchDay, <<>>}
    [] h = hAnnouncementDate -> {cDayFirst, cTBA}
    [] h = hPaymentDate -> {cTBA, <<>>}
    [] h = hDate -> {cDayFirst, cTBA, cNoSuchDay, cDash, <<>>}
    [] h = hAmount -> {cAmount, cDash, <<>>}
    [] h = hOpen -> {<<"1">>}
    [] h = hHigh -> {<<"2">>}
    [] h = hLow -> {<<"3">>}
    [] h = hClose -> {<<"4">>}
    [] OTHER -> {<<"2","0","2","4">>, <<>>}
\* the data rows under a header row, a cell for every header cell
RECURSIVE RowsFor(_)
RowsFor(headerRow) ==
  IF headerRow = <<>> THEN {<<>>}
  ELSE {<<cell>> \o rest : cell \in CellsFor(headerRow[1]), rest \in RowsFor(Tail(headerRow))}
\* the same rows, and the rows whose last cell is missing
RaggedRowsFor(headerRow) ==
  RowsFor(headerRow) \cup {SubSeq(row, 1, Len(row) - 1) : row \in RowsFor(headerRow)}

\* The grids cleanDividendData is applied to: a header row and up to MaxGridRows
\* data rows that may lack their last cell, as tableToArray returns them
DividendHeaderRows ==
  { <<hExDate, hAmount>>,
    <<hExDate, hAmount, hFinancialYear>>,
    <<hExDate, hAmount, hPercent>>,
    <<hExDate, hAmount, hAnnouncementDate, hPaymentDate>> }
DividendGridsUnder(headerRow) ==
  {[data |-> <<headerRow>> \o rows, headerRow |-> headerRow, columns |-> headerRow,
    titles |-> 0] :
     rows \in SeqsUpTo(RaggedRowsFor(headerRow), MaxGridRows)}
DividendGrids == UNION {DividendGridsUnder(headerRow) : headerRow \in DividendHeaderRows}

\* The grids cleanPriceData is applied to: titles rows with the one cell "Prices",
\* a header row, and up to MaxGridRows data rows that may lack their last cell.
\* columns names the columns of the data rows: those of the header row, after a
\* date column without a header cell when the header row has no date cell.
PriceHeaderRows ==
  { <<hDate, hOpen, hHigh, hLow, hClose>>,
    <<hOpen, hHigh, hLow, hClose, hDate>>,
    <<hDate, hOpen, hHigh, hLow, hClose, hVolume>>,
    <<hOpen, hHigh, hLow, hClose>> }
columnsOf(headerRow) ==
  IF \E i \in 1..Len(headerRow) : headerRow[i] = hDate THEN headerRow
  ELSE <<hDate>> \o headerRow
PriceGridsUnder(headerRow) ==
  {[data |-> [i \in 1..titles |-> <<hPrices>>] \o <<headerRow>> \o rows,
    headerRow |-> headerRow, columns |-> columnsOf(headerRow), titles |-> titles] :
     titles \in 0..1,
     rows \in SeqsUpTo(RaggedRowsFor(columnsOf(headerRow)), MaxGridRows)}
PriceGrids == UNION {PriceGridsUnder(headerRow) : headerRow \in PriceHeaderRows}

CleanDividendData == Return("cleanDividendData", cleanDividendData(input.arg.data))
CleanPriceData == Return("cleanPriceData", cleanPriceData(input.arg.data))

NextClean == CleanDividendData \/ CleanPriceData
InitClean ==
  \/ Calling({"cleanDividendData"}, DividendGrids)
  \/ Calling({"cleanPriceData"}, PriceGrids)
SpecClean == InitClean /\ [][NextClean]_vars

\* handleFullDownload from the classification of the table to the grid of the CSV,
\* for a table that does not change and is extracted once
collectedOnce(trs) == mapValues(collectRows(<<>>, tableToArray(trs)))
\* if (tableType === 'dividend') ... else if (tableType === 'price') ...
cleanedByType(tableType, filteredRows) ==
  IF tableType = "dividend" THEN cleanDividendData(filteredRows)
  ELSE IF tableType = "price" THEN cleanPriceData(filteredRows)
  ELSE filteredRows
\* the type of the table, the rows handed to the standardizer and the grid it returns
ClassifyAndClean ==
  \E tableType \in {getTableType(input.arg.trs)},
     filteredRows \in {nonEmptyRows(collectedOnce(input.arg.trs))} :
    Return("handleFullDownload",
           [tableType |-> tableType, filteredRows |-> filteredRows,
            grid |-> cleanedByType(tableType, filteredRows)])

NextDownload == ClassifyAndClean
InitDownload == Calling({"handleFullDownload"}, ClassifiedTables)
SpecDownload == InitDownload /\ [][NextDownload]_vars

\* The header strings tokenize is applied to: up to MaxHeaderLength characters,
\* lower-case and upper-case letters, blanks, hyphens and underscores
HeaderCharacters == {"e", "X", "d", " ", "-", "_"}
HeaderStrings == SeqsUpTo(HeaderCharacters, MaxHeaderLength)

Tokenize == Return("tokenize", tokenizeInOrder(input.arg))

NextTokens == Tokenize
InitTokens == Calling({"tokenize"}, HeaderStrings)
SpecTokens == InitTokens /\ [][NextTokens]_vars

(* ------------------------------------------------------------------ *)
(* Claims                                                              *)
(* ------------------------------------------------------------------ *)
\* scrollAndCollectRows returned: the loop ended by break or by its condition
ReturnedRows(r) == run[r].pc = "done" /\ run[r].exit \in {"bottom", "stalled", "cap"}
Hashes(rows) == {hashRow(row) : row \in rows}

\* C1: when scrollAndCollectRows returns, the rows it returns are rows it observed,
\* one for every hashRow value among the rows of all its extractions, and no two
\* returned rows have the same hashRow value.
C1_ReturnsOneRowPerObservedHash ==
  \A r \in Runs :
    ReturnedRows(r) =>
      LET rows == mapValues(run[r].uniqueRows)
      IN  /\ \A i \in 1..Len(rows) : rows[i] \in run[r].seen
          /\ Hashes({rows[i] : i \in 1..Len(rows)}) = Hashes(run[r].seen)
          /\ \A i, j \in 1..Len(rows) : hashRow(rows[i]) = hashRow(rows[j]) => i = j

\* C1 witness: a download returned after four or more extractions in which it saw
\* two different rows with the same hash
C1_Witness ==
  \E r \in Runs :
    /\ ReturnedRows(r)
    /\ run[r].exit = "bottom"
    /\ run[r].extractions >= 4
    /\ \E x, y \in run[r].seen : x # y /\ hashRow(x) = hashRow(y)

\* C2: a download never performs more than N + MAX_NO_NEW_ROWS_ATTEMPTS scroll steps,
\* N being the last step whose extraction showed a row not seen before; so it reaches
\* MAX_SCROLL_ATTEMPTS only if N + 5 >= 200, and when the loop ends on the
\* no-new-rows counter the download ends with 'complete' and without 'error'.
C2_StopsFiveStepsAfterTheLastNewRow ==
  \A r \in Runs :
    /\ run[r].scrollAttempts <= run[r].lastNewStep + MAX_NO_NEW_ROWS_ATTEMPTS
    /\ run[r].exit = "cap" =>
         run[r].lastNewStep + MAX_NO_NEW_ROWS_ATTEMPTS >= MAX_SCROLL_ATTEMPTS
    /\ run[r].exit = "stalled" =>
         /\ run[r].pc = "done"
         /\ run[r].noNewRowsCount = MAX_NO_NEW_ROWS_ATTEMPTS
         /\ run[r].last.status = "complete"
         /\ "error" \notin run[r].statuses

\* C2 witness: the page showed its last new row at step 7 and the download ended at
\* step 12 on the no-new-rows counter
C2_Witness ==
  \E r \in Runs :
    /\ run[r].exit = "stalled"
    /\ run[r].lastNewStep = 7
    /\ run[r].scrollAttempts = 7 + MAX_NO_NEW_ROWS_ATTEMPTS

\* C3: no download performs more than MAX_SCROLL_ATTEMPTS scroll steps, and one whose
\* loop ends at that cap ends with 'complete' and without 'error'.
C3_AtMostMaxScrollAttempts ==
  \A r \in Runs :
    /\ run[r].scrollAttempts <= MAX_SCROLL_ATTEMPTS
    /\ run[r].exit = "cap" =>
         /\ run[r].pc = "done"
         /\ run[r].scrollAttempts = MAX_SCROLL_ATTEMPTS
         /\ run[r].last.status = "complete"
         /\ "error" \notin run[r].statuses

\* C3 witness: a download stopped by the cap while the page was still producing rows
C3_Witness ==
  \E r \in Runs :
    /\ run[r].exit = "cap"
    /\ run[r].noNewRowsCount < MAX_NO_NEW_ROWS_ATTEMPTS
    /\ run[r].last.status = "complete"

\* the events of run r among those the step just taken sent, in order
sentNow(r) == SelectSeq(outbox', LAMBDA ev : ev.run = r)
RunSent(r) == run'[r].events > run[r].events
\* the cancellation check of run r (download.ts line 105) is executed by this step
CancelChecked(r) == run'[r].checks = run[r].checks + 1

\* C4: when cancelDownload arrived while run r waited inside its scroll loop, the
\* next cancellation check of r ends the loop: r sends one 'cancelled' event with
\* the number of unique rows collected so far, performs no further scroll step and
\* sends no 'scrolling' event after that check.
C4_NextCheckCancels ==
  [][\A r \in Runs :
       (run[r].pc = "scrollWait" /\ run[r].cancelAsked /\ CancelChecked(r)) =>
         /\ run'[r].exit = "cancelled"
         /\ run'[r].pc = "done"
         /\ run'[r].scrollAttempts = run[r].scrollAttempts
         /\ \E i \in 1..Len(sentNow(r)) :
              /\ sentNow(r)[i].status = "cancelled"
              /\ sentNow(r)[i].rowsCollected = Len(run'[r].uniqueRows)
              /\ \A j \in 1..Len(sentNow(r)) :
                   /\ sentNow(r)[j].status = "cancelled" => j = i
                   /\ sentNow(r)[j].status = "scrolling" => j < i]_vars

\* C5: for a run that sent 'cancelled', that event is the last event of the run and
\* the run sent no 'error' event.
C5_CancelledIsLastAndNotAnError ==
  \A r \in Runs :
    "cancelled" \in run[r].statuses =>
      /\ run[r].last.status = "cancelled"
      /\ "error" \notin run[r].statuses

\* C6: every call of handleFullDownload that has ended, whatever its tableIndex,
\* has sent a 'complete', 'cancelled' or 'error' event.
C6_EveryCallSendsATerminalEvent ==
  \A r \in Runs :
    run[r].pc \in {"done", "rejected"} =>
      run[r].statuses \cap {"complete", "cancelled", "error"} # {}

\* C7: at most one call of handleFullDownload is inside its scroll loop at a time.
C7_OneCollectionAtATime ==
  Cardinality({r \in Runs : run[r].pc \in {"scrollWait", "finalWait"}}) <= 1

\* the events of run r up to this step's, as pairs <<previous event, event>>
eventPairs(r) ==
  LET evs == sentNow(r)
      prev(i) == IF i = 1 THEN run[r].last
                 ELSE [status |-> evs[i - 1].status,
                       rowsCollected |-> evs[i - 1].rowsCollected,
                       error |-> evs[i - 1].error]
  IN  {<<prev(i), evs[i]>> : i \in 1..Len(evs)}

\* C8 as stated: the rowsCollected of a 'scrolling' or 'complete' event is never
\* lower than that of the event sent before it in the same run.
C8_CountNeverDecreasesUpToComplete ==
  [][\A r \in Runs :
       RunSent(r) =>
         \A pair \in eventPairs(r) :
           (pair[1].status # "none" /\ pair[2].status \in {"scrolling", "complete"}) =>
             pair[2].rowsCollected >= pair[1].rowsCollected]_vars

\* C8: the k-th 'scrolling' event of a run is its k-th event and reports step k;
\* rowsCollected never decreases from one 'scrolling' event to the next and is the
\* number of unique rows; the 'complete' event comes after them and carries the
\* number of rows of the cleaned output, which is at most the number of unique
\* rows and may be lower than the count of the 'scrolling' event before it.
C8_ScrollingCountNeverDecreases ==
  [][\A r \in Runs :
       RunSent(r) =>
         \A pair \in eventPairs(r) :
           /\ pair[2].status = "scrolling" =>
                /\ pair[1].status \in {"none", "scrolling"}
                /\ pair[2].rowsCollected >= pair[1].rowsCollected
                /\ pair[2].rowsCollected = Len(run'[r].uniqueRows)
                /\ run[r].events + 1 = run[r].scrollAttempts
           /\ pair[2].status = "complete" =>
                /\ pair[1].status \in {"none", "scrolling"}
                /\ pair[2].rowsCollected <= Len(run'[r].uniqueRows)]_vars

\* C8 witness: a 'complete' event with a lower count than the 'scrolling' event
\* sent before it, after the count grew from one 'scrolling' event to the next
C8_Witness ==
  \E r \in Runs :
    /\ run[r].last.status = "complete"
    /\ run[r].events >= 3
    /\ run[r].last.rowsCollected < Len(run[r].uniqueRows)
    /\ Len(run[r].uniqueRows) >= 3
    /\ run[r].lastNewStep >= 2

\* C9: a 'scrolling' event carries a progress from 0 to SCROLL_PROGRESS_CAP, and only
\* a 'complete' event carries progress 100.
C9_ScrollingProgressWithinCap ==
  \A i \in 1..Len(outbox) :
    /\ outbox[i].status = "scrolling" =>
         /\ ~outbox[i].progress.nan
         /\ outbox[i].progress.val \in 0..SCROLL_PROGRESS_CAP
    /\ (~outbox[i].progress.nan /\ outbox[i].progress.val = 100) =>
         outbox[i].status = "complete"

\* C10: a call whose tableIndex is outside 0 .. validTables.length - 1 sends exactly
\* one event, 'error' with 'Invalid table index', and neither extracts nor scrolls.
C10_InvalidIndexSendsOneError ==
  \A r \in Runs :
    (run[r].pc # "idle" /\ run[r].tableIndex \notin 0..(run[r].validCount - 1)) =>
      /\ run[r].events = 1
      /\ run[r].last.status = "error"
      /\ run[r].last.error = "Invalid table index"
      /\ run[r].extractions = 0
      /\ run[r].scrollAttempts = 0

\* the columns a mapping assigns to the canonical names
claimedColumns(mapping, names) ==
  {mapping[names[k]] : k \in {j \in 1..Len(names) : mapping[names[j]] # UNDEFINED}}
\* the canonical names of the mapping the call under study returned
namesOfCall ==
  IF input.fn = "mapDividendColumns"
    THEN <<"ex_date", "amount", "indicator", "announcement_date", "payment_date", "description">>
    ELSE <<"date", "open", "high", "low", "close">>
\* the matcher of a canonical name, by the function under study
matches(name, header) ==
  IF input.fn = "mapDividendColumns"
    THEN CASE name = "ex_date" -> isExDateColumn(header)
           [] name = "amount" -> isAmountColumn(header)
           [] name = "indicator" -> isIndicatorColumn(header)
           [] name = "announcement_date" -> isAnnouncementDateColumn(header)
           [] name = "payment_date" -> isPaymentDateColumn(header)
           [] name = "description" -> isDescriptionColumn(header)
    ELSE CASE name = "date" -> isDateColumn(header)
           [] name = "open" -> isOpenColumn(header)
           [] name = "high" -> isHighColumn(header)
           [] name = "low" -> isLowColumn(header)
           [] name = "close" -> isCloseColumn(header)
MappingReturned == output.fn \in {"mapDividendColumns", "mapPriceColumns"}

\* C11: in the mapping mapDividendColumns or mapPriceColumns returns for a header
\* row, no column index is assigned to two canonical names, and extras lists, in
\* increasing order and once each, exactly the indexes 0 .. headers.length-1 that
\* are assigned to no canonical name.
C11_ClaimedAndExtrasPartitionTheColumns ==
  MappingReturned =>
    LET mapping == output.value
        names == namesOfCall
        extras == {mapping.extras[i] : i \in 1..Len(mapping.extras)}
    IN  /\ \A j, k \in 1..Len(names) :
             (j # k /\ mapping[names[j]] # UNDEFINED) => mapping[names[j]] # mapping[names[k]]
        /\ claimedColumns(mapping, names) \cap extras = {}
        /\ claimedColumns(mapping, names) \cup extras = 0..(Len(input.arg) - 1)
        /\ \A i \in 1..(Len(mapping.extras) - 1) : mapping.extras[i] < mapping.extras[i + 1]

\* C11 witness: a header row of three columns, one claimed by a name although it
\* also satisfies the matcher of a later name that stays unmapped, one in extras
C11_Witness ==
  /\ output.fn = "mapDividendColumns"
  /\ input.arg = <<hFinancialYear, hDividendType, hExDividendDate>>
  /\ output.value.amount = 1
  /\ output.value.indicator = UNDEFINED
  /\ output.value.extras = <<0>>

\* C12: each canonical name, in priority order, is mapped to the lowest column
\* index whose header satisfies its matcher and that no name of higher priority
\* was mapped to, and is unmapped only when there is no such column; the header
\* row ["Ex Dividend Date", "Amount"] gives ex_date 0 and amount 1.
C12_LowestUnclaimedMatchInPriorityOrder ==
  MappingReturned =>
    LET mapping == output.value
        names == namesOfCall
        candidates(k) ==
          {i \in 0..(Len(input.arg) - 1) :
             /\ matches(names[k], at(input.arg, i))
             /\ \A j \in 1..(k - 1) : mapping[names[j]] # i}
    IN  /\ \A k \in 1..Len(names) :
             IF candidates(k) = {}
               THEN mapping[names[k]] = UNDEFINED
               ELSE /\ mapping[names[k]] \in candidates(k)
                    /\ \A i \in candidates(k) : mapping[names[k]] <= i
        /\ (input.fn = "mapDividendColumns" /\ input.arg = <<hExDividendDate, hAmount>>) =>
             (mapping.ex_date = 0 /\ mapping.amount = 1)

\* C12 witness: the header row ["Ex Dividend Date", "Amount"] has been mapped
C12_Witness ==
  /\ output.fn = "mapDividendColumns"
  /\ input.arg = <<hExDividendDate, hAmount>>
  /\ output.value.ex_date = 0
  /\ isAmountColumn(hExDividendDate)

\* the days of month 1..12 of a year in the Gregorian calendar
monthLength(year, month) ==
  IF month = 2 /\ ((year % 4 = 0 /\ year % 100 # 0) \/ year % 400 = 0) THEN 29
  ELSE <<31, 28, 31, 30, 31, 30, 31, 31, 30, 31, 30, 31>>[month]
\* year-month-day is a day of the calendar from 1900 to 2100
realDay(year, month, day) ==
  /\ year \in 1900..2100
  /\ month \in 1..12
  /\ day \in 1..monthLength(year, month)
\* YYYY-MM-DD of a real day, INVALID_DATE of any other triple
isoOrInvalid(year, month, day) ==
  IF realDay(year, month, day)
    THEN formatToISO([year |-> year, month |-> month - 1, date |-> day])
    ELSE INVALID_DATE
DateParsed(shapes) == output.fn = "parseDateToISO" /\ input.arg.shape \in shapes

\* C19: the year, month and day parseDateToISO reads from a date string are
\* accepted exactly when the year is from 1900 to 2100, the month from 1 to 12
\* and the day is a day of that month in that year; for any other triple the
\* result is INVALID_DATE, never the date of another month. A numeric string
\* gives a date only of a real day written with its two fields.
C19_OnlyRealDaysAreAccepted ==
  /\ DateParsed({"iso", "text"}) =>
       output.value = isoOrInvalid(input.arg.year, input.arg.first, input.arg.second)
  /\ DateParsed({"numeric"}) =>
       /\ output.value \in { isoOrInvalid(input.arg.year, input.arg.first, input.arg.second),
                             isoOrInvalid(input.arg.year, input.arg.second, input.arg.first) }
       /\ (input.arg.first <= 12 \/ input.arg.second > 12) =>
            output.value = isoOrInvalid(input.arg.year, input.arg.first, input.arg.second)

\* C19 witness: 2/30/2024 gave INVALID_DATE
C19_Witness ==
  /\ DateParsed({"numeric"})
  /\ input.arg.year = 2024 /\ input.arg.first = 2 /\ input.arg.second = 30
  /\ output.value = INVALID_DATE

\* C20: A/B/YYYY, with "/" or "." between the fields, is read day first (day A,
\* month B) when A > 12 and B <= 12, and month first (month A, day B) in every
\* other case: with A and B both <= 12 the result is the month-first reading,
\* with both > 12 it is INVALID_DATE.
C20_DayFirstOnlyWhenFirstFieldExceedsTwelve ==
  DateParsed({"numeric"}) =>
    /\ output.value =
         IF input.arg.first > 12 /\ input.arg.second <= 12
           THEN isoOrInvalid(input.arg.year, input.arg.second, input.arg.first)
           ELSE isoOrInvalid(input.arg.year, input.arg.first, input.arg.second)
    /\ (input.arg.first > 12 /\ input.arg.second > 12) => output.value = INVALID_DATE

\* C20 witness: 13.12.2024 was read as 13 December
C20_Witness ==
  /\ DateParsed({"numeric"})
  /\ input.arg.dateStr = <<"1","3",".","1","2",".","2","0","2","4">>
  /\ output.value = <<"2","0","2","4","-","1","2","-","1","3">>

Classified == output.fn = "getTableType"
\* the header row of the table under study is a row hasPriceColumns looks at: a
\* row of the thead, or one of the first five rows
headerIsCandidate == input.arg.section = "thead" \/ input.arg.titles + 1 <= 5
\* its cells are among those hasDividendColumns looks at: cells of the thead, or
\* of a first row
headerIsExamined == input.arg.section = "thead" \/ input.arg.titles = 0
\* the header row has an open, a high, a low and a close cell
headerHasOHLC == {hOpen, hHigh, hLow, hClose} \subseteq input.arg.cells
\* the header row has a cell for the ex-date and a cell for the amount; "Ex
\* Dividend Date" is both
headerHasDividend ==
  \/ hExDividendDate \in input.arg.cells
  \/ {hExDate, hAmount} \subseteq input.arg.cells

C18_PriceBeforeDividend ==
  Classified =>
    /\ output.value \in {"price", "dividend", "null"}
    /\ output.value = "price" <=> (headerIsCandidate /\ headerHasOHLC)
    /\ output.value = "dividend" <=>
         (~(headerIsCandidate /\ headerHasOHLC) /\ headerIsExamined /\ headerHasDividend)

\* C18 witness: a header with open, high, low, close, an ex-date and an amount
\* cell was classified 'price'
C18_Witness ==
  /\ Classified
  /\ {hOpen, hHigh, hLow, hClose, hExDate, hAmount} \subseteq input.arg.cells
  /\ headerIsExamined
  /\ output.value = "price"

\* the data rows of the grid under study, and the text of the cell of one of them
\* in the column named h; '' where the row has no such cell
inputRows == SubSeq(input.arg.data, input.arg.titles + 2, Len(input.arg.data))
columnAt(h) == CHOOSE c \in 1..Len(input.arg.columns) : input.arg.columns[c] = h
hasCell(row, h) == columnAt(h) <= Len(row)
cellOf(row, h) == IF hasCell(row, h) THEN row[columnAt(h)] ELSE <<>>
\* the data rows of the grid that was returned, and the field named name of one
outputRows == Tail(output.value)
fieldAt(name) == CHOOSE j \in 1..Len(output.value[1]) : output.value[1][j] = name
DividendCleaned == output.fn = "cleanDividendData"
PriceCleaned == output.fn = "cleanPriceData"
hasAmount(row) == trim(cellOf(row, hAmount)) \notin {<<>>, <<"-">>}
hasDate(row) == trim(cellOf(row, hDate)) \notin {<<>>, <<"-">>}

\* C13: cleanDividendData returns one data row for every input data row whose
\* amount is neither empty nor "-", and for no other row; every data row it
\* returns has an amount field that is neither empty nor "-".
C13_RowsWithAnAmountAndNoOthers ==
  DividendCleaned =>
    /\ Len(outputRows) = Len(SelectSeq(inputRows, hasAmount))
    /\ \A r \in 1..Len(outputRows) : outputRows[r][2] \notin {<<>>, <<"-">>}

\* C14: when cleanPriceData has found a header row, it returns one data row for
\* every input data row whose date cell is there and neither empty nor "-", and
\* for no other row; every data row it returns has a non-empty date field.
C14_RowsWithADateAndNoOthers ==
  (PriceCleaned /\ Len(inputRows) > 0) =>
    /\ Len(outputRows) = Len(SelectSeq(inputRows, hasDate))
    /\ \A r \in 1..Len(outputRows) : outputRows[r][1] # <<>>

\* a cell with a text that is not a date
notADate(cell) == cell \in {cTBA, cNoSuchDay}
\* the date columns of the grid under study with the fields they are returned in
DateFieldsOf ==
  {f \in {[column |-> hExDate, field |-> <<"e","x","_","d","a","t","e">>],
          [column |-> hAnnouncementDate,
           field |-> <<"a","n","n","o","u","n","c","e","m","e","n","t","_","d","a","t","e">>],
          [column |-> hPaymentDate,
           field |-> <<"p","a","y","m","e","n","t","_","d","a","t","e">>],
          [column |-> hDate, field |-> <<"d","a","t","e">>]} :
     \E c \in 1..Len(input.arg.columns) : input.arg.columns[c] = f.column}
\* the k-th of the rows passing, for every k, was returned as the k-th of the rows
\* emitted, with INVALID_DATE in the field of every date cell that is not a date
emittedWithInvalidDates(passing, emitted) ==
  /\ Len(emitted) = Len(passing)
  /\ \A k \in 1..Len(passing) : \A f \in DateFieldsOf :
       notADate(cellOf(passing[k], f.column)) => emitted[k][fieldAt(f.field)] = INVALID_DATE

\* C15: a data row with a date cell that is present and is not a date is not
\* dropped for that: cleanDividendData returns every row with an amount that is
\* neither empty nor "-", and cleanPriceData every row with a date that is neither
\* empty nor "-", with INVALID_DATE in the field of such a cell (ex_date,
\* announcement_date, payment_date; date).
C15_UnparseableDateIsKeptAsInvalidDate ==
  /\ DividendCleaned =>
       emittedWithInvalidDates(
         SelectSeq(inputRows, hasAmount),
         SelectSeq(outputRows, LAMBDA row : row[2] \notin {<<>>, <<"-">>}))
  /\ (PriceCleaned /\ Len(inputRows) > 0) =>
       emittedWithInvalidDates(
         SelectSeq(inputRows, hasDate),
         SelectSeq(outputRows, LAMBDA row : row[1] # <<>>))

\* C15 witness: a dividend row with an amount and the payment date "TBA" was
\* returned with INVALID_DATE as its payment_date
C15_Witness ==
  /\ DividendCleaned
  /\ Len(inputRows) = 1
  /\ cellOf(inputRows[1], hAmount) = cAmount
  /\ \E c \in 1..Len(input.arg.columns) : input.arg.columns[c] = hPaymentDate
  /\ cellOf(inputRows[1], hPaymentDate) = cTBA
  /\ Len(outputRows) = 1
  /\ outputRows[1][4] = INVALID_DATE

\* the columns of the grid under study that no matcher claims
UnmatchedColumns ==
  {h \in {hFinancialYear, hPercent, hVolume} :
     \E c \in 1..Len(input.arg.columns) : input.arg.columns[c] = h}
\* the serialized extras of a returned row: its last field when the returned header
\* ends with extras, nothing otherwise
extrasOf(row) ==
  IF output.value[1][Len(output.value[1])] = <<"e","x","t","r","a","s">>
    THEN row[Len(row)] ELSE <<>>
occurs(part, text) ==
  \E i \in 0..(Len(text) - Len(part)) : SubSeq(text, i + 1, i + Len(part)) = part
\* in the extras of the k-th row emitted, every unmatched column has the member
\* "snake_case(header)":"cell" when the cell of the k-th row passing is not empty,
\* and no member under that key when it is empty
extrasAreFaithful(passing, emitted) ==
  /\ Len(emitted) = Len(passing)
  /\ \A k \in 1..Len(passing) : \A h \in UnmatchedColumns :
       IF cellOf(passing[k], h) # <<>>
         THEN occurs(quoted(toSnakeCase(h)) \o <<":">> \o quoted(cellOf(passing[k], h)),
                     extrasOf(emitted[k]))
         ELSE ~occurs(quoted(toSnakeCase(h)) \o <<":">>, extrasOf(emitted[k]))

\* C16: in the serialized extras of a returned row, an unmatched column has the key
\* snake_case(header) with the text of its cell as value if and only if the cell is
\* not empty; "Financial Year" with the cell "2024" gives
\* {"financial_year":"2024"}.
C16_ExtrasHaveEveryNonEmptyCell ==
  /\ DividendCleaned =>
       extrasAreFaithful(
         SelectSeq(inputRows, hasAmount),
         SelectSeq(outputRows, LAMBDA row : row[2] \notin {<<>>, <<"-">>}))
  /\ (PriceCleaned /\ Len(inputRows) > 0) =>
       extrasAreFaithful(
         SelectSeq(inputRows, hasDate),
         SelectSeq(outputRows, LAMBDA row : row[1] # <<>>))

Tokenized == output.fn = "tokenize"
elements(tokens) == {tokens[i] : i \in 1..Len(tokens)}

\* C21: for every header string x, tokenizing the tokens of x joined by single
\* spaces gives the token set of x: tokenize(join(tokenize(x), " ")) = tokenize(x).
C21_TokenizeIsIdempotent ==
  Tokenized =>
    /\ elements(output.value) = tokenize(input.arg)
    /\ tokenize(join(output.value, <<" ">>)) = tokenize(input.arg)

\* C21 witness: "eX_d" was tokenized to e, x and d, and "e x d" has the same tokens
C21_Witness ==
  /\ Tokenized
  /\ input.arg = <<"e", "X", "_", "d">>
  /\ output.value = << <<"e">>, <<"x">>, <<"d">> >>
  /\ tokenize(<<"e", " ", "x", " ", "d">>) = {<<"e">>, <<"x">>, <<"d">>}

\* C22: a cancel request that arrived while run r was at a timed wait (the wait of
\* a scroll step or the final wait at the bottom) takes effect once the wait has
\* elapsed: the run ends as cancelled and sends no 'complete' event.
C22_CancelDuringAWaitEndsTheRunAsCancelled ==
  [][\A r \in Runs :
       (/\ run[r].pc \in {"scrollWait", "finalWait"}
        /\ run[r].cancelAsked
        /\ run'[r].pc # run[r].pc \/ CancelChecked(r) \/ RunSent(r)) =>
         /\ run'[r].pc = "done"
         /\ run'[r].exit = "cancelled"
         /\ \A i \in 1..Len(sentNow(r)) : sentNow(r)[i].status # "complete"]_vars

\* run r is started by this step, with a valid table index
Started(r) == run[r].pc = "idle" /\ run'[r].pc \in {"scrollWait", "finalWait", "done"} /\ run'[r].exit # "invalid"

\* C23: starting a collection resets the cancellation flag, so a cancel request
\* received before the start (while no collection was active, or for a run that
\* was cancelled) does not cancel it; a run is cancelled only after a cancel
\* request that arrived while it was waiting.
C23_StartResetsTheCancellationFlag ==
  [][\A r \in Runs :
       /\ Started(r) => (~downloadCancelled' /\ run'[r].exit # "cancelled")
       /\ run'[r].exit = "cancelled" => run'[r].cancelAsked]_vars

\* C23 witness: a run started while the flag was set has ended normally, after
\* another run was cancelled
C23_Witness ==
  /\ run[1].exit = "cancelled"
  /\ run[2].startedCancelled
  /\ run[2].pc = "done"
  /\ run[2].last.status = "complete"

\* run r has gone on from a wait by this step
Resumed(r) ==
  /\ run[r].pc \in {"scrollWait", "finalWait"}
  /\ run'[r].pc # run[r].pc \/ run'[r].extractions # run[r].extractions

\* C24: when after the wait of a scroll step scrollTop + clientHeight >=
\* scrollHeight - 10, the run scrolls no further and goes to the final wait; after
\* it the run extracts the grid once more, has every row of that grid among its
\* rows, scrolls no further, and ends normally with a 'complete' event.
C24_BottomEndsAfterOneMoreExtraction ==
  [][\A r \in Runs :
       /\ (/\ run[r].pc = "scrollWait"
           /\ Resumed(r)
           /\ run'[r].scrollTop + run[r].clientHeight >= run'[r].scrollHeight - 10) =>
            /\ run'[r].pc = "finalWait"
            /\ run'[r].scrollAttempts = run[r].scrollAttempts
            /\ run'[r].extractions = run[r].extractions + 1
       /\ (run[r].pc = "finalWait" /\ Resumed(r)) =>
            /\ run'[r].pc = "done"
            /\ run'[r].exit = "bottom"
            /\ run'[r].scrollAttempts = run[r].scrollAttempts
            /\ run'[r].extractions = run[r].extractions + 1
            /\ \A i \in 1..Len(table.rows) :
                 \E k \in 1..Len(run'[r].uniqueRows) :
                   run'[r].uniqueRows[k].value = tableToArray(table.rows)[i]
            /\ \E i \in 1..Len(sentNow(r)) : sentNow(r)[i].status = "complete"]_vars

\* C24 witness: a run that ended at the bottom returned a row it did not have when
\* the final wait began
C24_Witness ==
  /\ run[1].pc = "done"
  /\ run[1].exit = "bottom"
  /\ Len(run[1].uniqueRows) > run[1].beforeFinal

C26_ReturnedGridIsRectangular ==
  (DividendCleaned \/ (PriceCleaned /\ Len(inputRows) > 0)) =>
    \A r \in 1..Len(outputRows) : Len(outputRows[r]) = Len(output.value[1])

\* C26 witness: a price row without its volume cell, under a header row with a
\* volume column, was returned with six fields under a header row of six
C26_Witness ==
  /\ PriceCleaned
  /\ input.arg.headerRow = <<hDate, hOpen, hHigh, hLow, hClose, hVolume>>
  /\ Len(inputRows) = 1
  /\ Len(inputRows[1]) = 5
  /\ Len(output.value) = 2
  /\ Len(output.value[1]) = 6
  /\ Len(output.value[2]) = 6

Downloaded == output.fn = "handleFullDownload"

\* C27: for every table getTableType classifies as 'dividend', the mapping
\* cleanDividendData makes of its grid has a column for ex_date and a column for
\* amount, and they are two columns.
C27_DividendTableHasExDateAndAmountColumns ==
  (Downloaded /\ output.value.tableType = "dividend") =>
    /\ Len(output.value.filteredRows) > 0
    /\ dividendMapping(output.value.filteredRows).ex_date # UNDEFINED
    /\ dividendMapping(output.value.filteredRows).amount # UNDEFINED
    /\ dividendMapping(output.value.filteredRows).ex_date #
         dividendMapping(output.value.filteredRows).amount

\* C28: for every table getTableType classifies as 'price', cleanPriceData finds a
\* header row and returns a grid whose first row is date, open, high, low, close,
\* with extras after them when there are any; it does not return the grid it was
\* given.
C28_PriceTableIsStandardized ==
  (Downloaded /\ output.value.tableType = "price") =>
    /\ output.value.grid # output.value.filteredRows
    /\ Len(output.value.grid) > 0
    /\ output.value.grid[1] \in
         { << <<"d","a","t","e">>, <<"o","p","e","n">>, <<"h","i","g","h">>,
              <<"l","o","w">>, <<"c","l","o","s","e">> >>,
           << <<"d","a","t","e">>, <<"o","p","e","n">>, <<"h","i","g","h">>,
              <<"l","o","w">>, <<"c","l","o","s","e">>, <<"e","x","t","r","a","s">> >> }

\* the column indices of a final mapping of cleanPriceData, field after field
mappedIndices(mapping) ==
  <<mapping.date, mapping.open, mapping.high, mapping.low, mapping.close>> \o mapping.extras

\* C29: the final mapping of cleanPriceData gives date, open, high, low, close and
\* the extras indices that are pairwise different, and every column index of the
\* first data row is one of them.
C29_FinalMappingPartitionsTheColumns ==
  (PriceCleaned /\ Len(inputRows) > 0) =>
    /\ \A i, j \in 1..Len(mappedIndices(priceMapping(input.arg.data, input.arg.titles))) :
         i # j => mappedIndices(priceMapping(input.arg.data, input.arg.titles))[i] #
                    mappedIndices(priceMapping(input.arg.data, input.arg.titles))[j]
    /\ \A c \in 0..(Len(inputRows[1]) - 1) :
         \E i \in 1..Len(mappedIndices(priceMapping(input.arg.data, input.arg.titles))) :
           mappedIndices(priceMapping(input.arg.data, input.arg.titles))[i] = c

\* the hashes in kept, followed by the hashes of rows that are not in kept, each
\* once and in the order of the rows
RECURSIVE hashesInOrder(_, _)
hashesInOrder(rows, kept) ==
  IF rows = <<>> THEN kept
  ELSE IF \E i \in 1..Len(kept) : kept[i] = hashRow(rows[1])
    THEN hashesInOrder(Tail(rows), kept)
    ELSE hashesInOrder(Tail(rows), Append(kept, hashRow(rows[1])))
\* the hashes of the rows of run rr, in the order of the rows
hashesOf(rr) == [i \in 1..Len(rr.uniqueRows) |-> hashRow(rr.uniqueRows[i].value)]
\* the grid handleFullDownload hands to the standardizer when run rr ends now
collectedGrid(rr) == nonEmptyRows(mapValues(rr.uniqueRows))

\* C30: the rows of a run, a row being what hashRow tells apart, are in the order
\* of their first appearance: the initial extraction gives its rows in their order,
\* and every later extraction leaves the rows it sees again where they are and puts
\* the rows it sees first behind them, in their order. So the first row with a
\* non-empty cell of the initial extraction is row 0 of the grid handed to the
\* standardizer, and stays row 0 whatever is extracted later.
C30_RowsKeepTheOrderOfFirstAppearance ==
  [][\A r \in Runs :
       /\ Started(r) =>
            /\ hashesOf(run'[r]) = hashesInOrder(tableToArray(table.rows), <<>>)
            /\ nonEmptyRows(tableToArray(table.rows)) # <<>> =>
                 collectedGrid(run'[r])[1] = nonEmptyRows(tableToArray(table.rows))[1]
       /\ Resumed(r) =>
            /\ hashesOf(run'[r]) = hashesInOrder(tableToArray(table.rows), hashesOf(run[r]))
            /\ collectedGrid(run[r]) # <<>> =>
                 hashRow(collectedGrid(run'[r])[1]) = hashRow(collectedGrid(run[r])[1])]_vars

\* C30 witness: a download that ended after six or more extractions has four
\* rows, three of them with a non-empty cell, the header row first
C30_Witness ==
  \E r \in Runs :
    /\ run[r].pc = "done"
    /\ run[r].last.status = "complete"
    /\ run[r].extractions >= 6
    /\ Len(run[r].uniqueRows) = 4
    /\ Len(collectedGrid(run[r])) = 3
    /\ collectedGrid(run[r])[1] = tableToArray(<<thDividend>>)[1]
    /\ tableToArray(<<thDividend>>)[1] \in run[r].seen

====
